---- MODULE Spec2Model ----
(***************************************************************************)
(* Model of the audio output core of softhddevice (src/audio.c): the ring  *)
(* of ring-buffer slots shared by the decoder context (producer) and the   *)
(* play thread (consumer), the start/flush/stop signalling between them,   *)
(* and the ALSA sink as far as the play thread observes it.                *)
(*                                                                         *)
(* In the ring a slot's buffer is a sequence of runs <<bytes, age>>, where *)
(* age is a history tag (0: enqueued after the last returned flush,        *)
(* 1: enqueued before a flush call that has returned, 2: enqueued before a *)
(* flush call that returned after seeing filled = 0). The sample values    *)
(* are modelled in the sample path (remix, compressor, normalizer,         *)
(* software volume, start threshold), a state machine of its own: DspSpec. *)
(***************************************************************************)
EXTENDS Integers, Sequences, FiniteSets, TLC

\* ------------------------------------------------------------------------
\* Program constants
\* ------------------------------------------------------------------------
AUDIO_RING_MAX == 8
AudioBytesProSample == 2
AudioBufferTime == 336
AudioRingBufferSize == 3 * 5 * 7 * 8 * 2 * 1000
AudioRatesTable == <<44100, 48000, 192000>>
AudioRatesMax == Len(AudioRatesTable)
VideoAudioDelay == 0
\* INT64_C(0x8000000000000000), the "no timestamp" sentinel: the smallest
\* value of the integers used here (TLC computes with 32-bit integers; every
\* other quantity of the model stays far inside that range)
NoPTS == -2147483647
\* the two polling loops of AudioFlushBuffers run 24 * 2 times
FlushPolls == 24 * 2

\* ------------------------------------------------------------------------
\* The hardware behind the sink, as AudioInit's probing finds it: a stereo
\* device for 44.1 and 48 kHz with a 96 ms buffer of four periods.
\* ------------------------------------------------------------------------
HwChannelsSupported == {2}
HwRatesSupported == {44100, 48000}
HwPeriodFrames == 1152
HwBufferFrames == 4 * HwPeriodFrames

\* ------------------------------------------------------------------------
\* Bounds of the explored workload
\* ------------------------------------------------------------------------
\* allocating calls (AudioSetup, AudioFlushBuffers) of the long-ring workload
MaxAllocs == 9
\* AudioEnqueue calls of the playback workload
MaxEnqueues == 4
MaxFlushes == 1
\* AudioVideoReady calls of the skip workload
MaxVideoReports == 2
\* frames of a remix call
MaxFrames == 3
\* calls into the compressor (settings, resets, blocks) of one run
MaxCompressorCalls == 4
\* calls into the normalizer (settings, resets, blocks) of one run
MaxNormCalls == 131
\* settings calls before and while a block travels the sample path
MaxSettings == 2
\* the first calls of a normalizer run, among which its settings calls,
\* resets and short blocks are made; after them it processes whole blocks
MaxNormPrefix == 3

Min(a, b) == IF a < b THEN a ELSE b
Max(a, b) == IF a > b THEN a ELSE b

RECURSIVE GCD(_, _)
GCD(a, b) == IF b = 0 THEN a ELSE GCD(b, a % b)

\* (a * m) / d as C computes it in 64 bits, for a >= 0 and m, d > 0; the
\* common factor of m and d is cancelled first so that the product stays
\* inside the integers TLC computes with (the quotient is the same)
MulDiv(a, m, d) == (a * (m \div GCD(m, d))) \div (d \div GCD(m, d))

\* (unsigned) x > n, for an int x and a byte count n below 2^31
UnsignedExceeds(x, n) == x < 0 \/ x > n

\* ------------------------------------------------------------------------
\* RingBuffer (ringbuffer.c), a byte FIFO; a buffer is a sequence of runs
\* ------------------------------------------------------------------------
RECURSIVE RingBufferUsedBytes(_)
RingBufferUsedBytes(b) ==
    IF b = <<>> THEN 0 ELSE Head(b)[1] + RingBufferUsedBytes(Tail(b))

RingBufferFreeBytes(b) == AudioRingBufferSize - RingBufferUsedBytes(b)

RECURSIVE RingBufferReadAdvance(_, _)
RingBufferReadAdvance(b, n) ==
    IF n <= 0 \/ b = <<>> THEN b
    ELSE IF Head(b)[1] <= n THEN RingBufferReadAdvance(Tail(b), n - Head(b)[1])
    ELSE <<(<<Head(b)[1] - n, Head(b)[2]>>)>> \o Tail(b)

\* appends what fits, merging with a last run of the same age
RingBufferWrite(b, cnt) ==
    LET n == Min(cnt, RingBufferFreeBytes(b)) IN
    IF n <= 0 THEN b
    ELSE IF b # <<>> /\ b[Len(b)][2] = 0
         THEN [b EXCEPT ![Len(b)] = <<b[Len(b)][1] + n, 0>>]
         ELSE Append(b, <<n, 0>>)

RingBufferReset == <<>>

\* the ages of the first n bytes of a buffer
RECURSIVE FrontAges(_, _)
FrontAges(b, n) ==
    IF n <= 0 \/ b = <<>> THEN {}
    ELSE {Head(b)[2]} \cup FrontAges(Tail(b), n - Head(b)[1])

\* history tagging: every buffered byte becomes at least `a` old
RECURSIVE AgedBuffer(_, _)
AgedBuffer(b, a) ==
    IF b = <<>> THEN <<>>
    ELSE LET h == <<Head(b)[1], Max(Head(b)[2], a)>>
             t == AgedBuffer(Tail(b), a)
         IN IF t # <<>> /\ t[1][2] = h[2]
            THEN <<(<<h[1] + t[1][1], h[2]>>)>> \o Tail(t)
            ELSE <<h>> \o t

\* ------------------------------------------------------------------------
\* Capability matrix, as AudioInit builds it from the probes
\* ------------------------------------------------------------------------
\* the probe: AlsaSetup succeeds for a format the hardware supports
HwAccepts(rate, chan) == rate \in HwRatesSupported /\ chan \in HwChannelsSupported

\* a device, as the probes of AudioInit see it: for every index u of the
\* rate table the channel counts AlsaSetup succeeds for at AudioRatesTable[u]
HwDevice ==
    [u \in 1..AudioRatesMax |-> {chan \in 1..8 : HwAccepts(AudioRatesTable[u], chan)}]

\* AudioChannelsInHw[chan] after the probes of the device dev: set by the
\* 44100 Hz probes (table index 1); the probes of the other rates run only
\* for channel counts already set and leave the entry as it is
ChannelsInHwOf(dev, chan) == IF chan \in dev[1] THEN chan ELSE 0

\* AudioRatesInHw[u] after the probes, as the set of its bits: the channel
\* counts probed at rate u with success
RatesInHwOf(dev, u) ==
    {chan \in 1..8 : ChannelsInHwOf(dev, chan) # 0 /\ chan \in dev[u]}

\* the first channel count of a fallback chain with AudioChannelsInHw set,
\* or 0
RECURSIVE FirstInHwOf(_, _)
FirstInHwOf(dev, chain) ==
    IF chain = <<>> THEN 0
    ELSE IF ChannelsInHwOf(dev, Head(chain)) # 0 THEN Head(chain)
    ELSE FirstInHwOf(dev, Tail(chain))

\* a variant of the switch that tries every higher channel count first
FallbackChainNextHigher(chan) ==
    [k \in 1..(8 - chan) |-> chan + k] \o <<6, 2, 1>>

\* the switch of AudioInit with its fall-through cases
FallbackChain(chan) ==
    CASE chan = 1 -> <<2>>
      [] chan \in {2, 3} -> <<4, 5, 6, 7, 8, 6, 2, 1>>
      [] chan = 4 -> <<5, 6, 7, 8, 6, 2, 1>>
      [] chan = 5 -> <<6, 7, 8, 6, 2, 1>>
      [] chan = 6 -> <<7, 8, 6, 2, 1>>
      [] chan = 7 -> <<8, 6, 2, 1>>
      [] OTHER -> <<6, 2, 1>>

\* AudioChannelMatrix[u][chan] as AudioInit builds it for the device dev
ChannelMatrixOf(dev, u, chan) ==
    IF RatesInHwOf(dev, u) = {} THEN 0
    ELSE IF ChannelsInHwOf(dev, chan) # 0 THEN chan
    ELSE FirstInHwOf(dev, FallbackChain(chan))

\* the tables of the device of this model
AudioChannelsInHw(chan) == ChannelsInHwOf(HwDevice, chan)

\* AudioRatesInHw[u] # 0
AudioRatesInHw(u) == RatesInHwOf(HwDevice, u) # {}

AudioChannelMatrix(u, chan) == ChannelMatrixOf(HwDevice, u, chan)

\* a variant of the rate search that settles for the first table rate
RateIndexOrFirst(sample_rate) ==
    IF \E u \in 1..AudioRatesMax : AudioRatesTable[u] = sample_rate
    THEN CHOOSE u \in 1..AudioRatesMax : AudioRatesTable[u] = sample_rate
    ELSE 1

\* the rate search of AudioRingAdd: the table index of sample_rate, or 0
RateIndex(sample_rate) ==
    IF \E u \in 1..AudioRatesMax : AudioRatesTable[u] = sample_rate
    THEN CHOOSE u \in 1..AudioRatesMax : AudioRatesTable[u] = sample_rate
    ELSE 0

\* ------------------------------------------------------------------------
\* Sample processing (filter and mixer functions). A block of samples is a
\* sequence of int16 values; element k of a C array is element k + 1 here.
\* ------------------------------------------------------------------------
INT16_MAX == 32767
INT16_MIN == -32768
AudioNormSamples == 4096
AudioNormMaxIndex == 128
AudioMinNormalize == 100

\* a / b as C divides ints: the quotient is truncated towards zero (b > 0)
CDiv(a, b) == IF a >= 0 THEN a \div b ELSE -((-a) \div b)

Abs(a) == IF a < 0 THEN -a ELSE a

\* the clipping every filter applies before it stores a sample
Clip16(t) == IF t < INT16_MIN THEN INT16_MIN ELSE IF t > INT16_MAX THEN INT16_MAX ELSE t

Zeros(n) == [k \in 1..n |-> 0]

\* AudioSoftAmplifier: silence when muted or at volume 0, else scaling
AudioSoftAmplifier(samples, mute, amplifier) ==
    IF mute # 0 \/ amplifier = 0
    THEN Zeros(Len(samples))
    ELSE [k \in DOMAIN samples |-> Clip16(CDiv(samples[k] * amplifier, 1000))]

RECURSIVE MaxSample(_, _)
MaxSample(samples, k) ==
    IF k = 0 THEN 0 ELSE Max(Abs(samples[k]), MaxSample(samples, k - 1))

\* a variant of the compressor's factor update without the "no clipping" cap
CompressionFactorUncapped(old, peak, maxfac) ==
    LET smooth == CDiv(old * 950 + ((INT16_MAX * 1000) \div peak) * 50, 1000)
    IN IF smooth > maxfac THEN maxfac ELSE smooth

\* the factor AudioCompressor leaves in AudioCompressionFactor for a block
\* whose loudest sample is peak > 0
CompressionFactor(old, peak, maxfac) ==
    LET factor == (INT16_MAX * 1000) \div peak
        smooth == CDiv(old * 950 + factor * 50, 1000)
        capped == IF smooth > factor THEN factor ELSE smooth
    IN IF capped > maxfac THEN maxfac ELSE capped

\* AudioCompressor: the block and the factor after the call
AudioCompressor(samples, old, maxfac) ==
    LET peak == MaxSample(samples, Len(samples)) IN
    IF peak > 0
    THEN LET f == CompressionFactor(old, peak, maxfac)
         IN [samples |-> [k \in DOMAIN samples |-> Clip16(CDiv(samples[k] * f, 1000))],
             factor |-> f]
    ELSE [samples |-> samples, factor |-> old]

\* AudioResetCompressor: the factor after the call
AudioResetCompressor(maxfac) == IF 2000 > maxfac THEN maxfac ELSE 2000

\* AudioMono2Stereo: every input sample goes to both output channels
AudioMono2Stereo(in, frames, out) ==
    [k \in DOMAIN out |->
        IF (k - 1) \div 2 < frames THEN in[(k - 1) \div 2 + 1] ELSE out[k]]

\* AudioStereo2Mono: `for (i = 0; i < frames; i += 2) out[i / 2] = ...`;
\* the loop runs over i = 0, 2, 4, ... below frames and stores element i / 2,
\* the other elements of out keep what the buffer held
AudioStereo2Mono(in, frames, out) ==
    [k \in DOMAIN out |->
        IF 2 * (k - 1) < frames
        THEN CDiv(in[2 * (k - 1) + 1] + in[2 * (k - 1) + 2], 2)
        ELSE out[k]]

\* the weights (/1000) of the input channels of one frame in the left and in
\* the right output channel, per channel count, as the switch assigns them
SurroundLeft ==
    [c \in 3..8 |->
        CASE c = 3 -> <<600, 0, 400>>
          [] c = 4 -> <<600, 0, 400, 0>>
          [] c = 5 -> <<500, 0, 200, 0, 300>>
          [] c = 6 -> <<400, 0, 200, 0, 300, 100>>
          [] c = 7 -> <<400, 0, 200, 0, 300, 100, 0>>
          [] c = 8 -> <<400, 0, 150, 0, 250, 100, 100, 0>>]

SurroundRight ==
    [c \in 3..8 |->
        CASE c = 3 -> <<0, 600, 400>>
          [] c = 4 -> <<0, 600, 0, 400>>
          [] c = 5 -> <<0, 500, 0, 200, 300>>
          [] c = 6 -> <<0, 400, 0, 200, 300, 100>>
          [] c = 7 -> <<0, 400, 0, 200, 300, 0, 100>>
          [] c = 8 -> <<0, 400, 0, 150, 250, 100, 0, 100>>]

RECURSIVE Weighted(_, _, _, _)
Weighted(in, base, weights, c) ==
    IF c = 0 THEN 0
    ELSE in[base + c] * weights[c] + Weighted(in, base, weights, c - 1)

\* a variant of the surround down-mix whose switch has no case for 8 channels
SurroundCasesTo7 == 3..7

\* the channel counts the switch of AudioSurround2Stereo has a case for
SurroundCases == 3..8

\* AudioSurround2Stereo: the output block, and whether `default: abort()`
\* was reached
AudioSurround2Stereo(in, in_chan, frames, out) ==
    IF in_chan \notin SurroundCases /\ frames > 0
    THEN [out |-> out, aborted |-> TRUE]
    ELSE [out |-> [k \in DOMAIN out |->
                      IF (k - 1) \div 2 >= frames THEN out[k]
                      ELSE LET base == ((k - 1) \div 2) * in_chan
                               w == IF k % 2 = 1 THEN SurroundLeft[in_chan]
                                    ELSE SurroundRight[in_chan]
                           IN CDiv(Weighted(in, base, w, in_chan), 1000)],
          aborted |-> FALSE]

\* AudioUpmix: the input channels are copied, the missing ones are silent
AudioUpmix(in, in_chan, frames, out, out_chan) ==
    [k \in DOMAIN out |->
        IF (k - 1) \div out_chan >= frames THEN out[k]
        ELSE LET f == (k - 1) \div out_chan
                 c == (k - 1) % out_chan
             IN IF c < in_chan THEN in[f * in_chan + c + 1] ELSE 0]

\* the channel pairs AudioResample sends to AudioUpmix
UpmixPairs == {<<5, 6>>, <<3, 8>>, <<5, 8>>, <<6, 8>>}

Done(o) == [out |-> o, error |-> FALSE, aborted |-> FALSE]

\* AudioResample: `switch (in_chan * 8 + out_chan)`; out is the buffer as
\* the caller allocated it (alloca: indeterminate contents). The result is
\* the buffer after the call, whether Error() was called and whether abort()
\* was reached.
AudioResample(in, in_chan, frames, out, out_chan) ==
    LET key == in_chan * 8 + out_chan IN
    IF key \in {c * 8 + c : c \in 1..8}
    THEN Done([k \in DOMAIN out |-> IF k <= frames * in_chan THEN in[k] ELSE out[k]])
    ELSE IF key = 2 * 8 + 1 THEN Done(AudioStereo2Mono(in, frames, out))
    ELSE IF key = 1 * 8 + 2 THEN Done(AudioMono2Stereo(in, frames, out))
    ELSE IF key \in {c * 8 + 2 : c \in 3..8}
    THEN LET r == AudioSurround2Stereo(in, in_chan, frames, out)
         IN [out |-> r.out, error |-> FALSE, aborted |-> r.aborted]
    ELSE IF key \in {p[1] * 8 + p[2] : p \in UpmixPairs}
    THEN Done(AudioUpmix(in, in_chan, frames, out, out_chan))
    ELSE [out |-> [k \in DOMAIN out |-> IF k <= frames * out_chan THEN 0 ELSE out[k]],
          error |-> TRUE, aborted |-> FALSE]

\* ------------------------------------------------------------------------
\* The normalizer. Its input is given as runs <<value, n>>: n consecutive
\* samples of the same value, so that blocks of AudioNormSamples samples
\* stay small. The statics it works on are the fields of a record:
\* Counter (AudioNormCounter), Ready (AudioNormReady), Index
\* (AudioNormIndex), Average (AudioNormAverage), Factor
\* (AudioNormalizeFactor); completed and computed count, for the call, the
\* blocks that became complete and the runs of the history-full branch.
\* ------------------------------------------------------------------------
RECURSIVE RunsLen(_)
RunsLen(runs) == IF runs = <<>> THEN 0 ELSE Head(runs)[2] + RunsLen(Tail(runs))

\* the sum of (t * t) / AudioNormSamples over the first n samples
RECURSIVE RunsEnergy(_, _)
RunsEnergy(runs, n) ==
    IF n = 0 \/ runs = <<>> THEN 0
    ELSE LET t == Head(runs)[1]
             m == Min(n, Head(runs)[2])
         IN m * ((t * t) \div AudioNormSamples) + RunsEnergy(Tail(runs), n - m)

\* data += n
RECURSIVE RunsDrop(_, _)
RunsDrop(runs, n) ==
    IF n = 0 \/ runs = <<>> THEN runs
    ELSE IF Head(runs)[2] <= n THEN RunsDrop(Tail(runs), n - Head(runs)[2])
    ELSE <<(<<Head(runs)[1], Head(runs)[2] - n>>)>> \o Tail(runs)

\* (uint32_t) sqrt(avg): the integer part of the square root, for
\* avg <= 2^30 (the largest mean of 128 block energies)
RECURSIVE SqrtBetween(_, _, _)
SqrtBetween(avg, lo, hi) ==
    IF lo = hi THEN lo
    ELSE LET mid == (lo + hi + 1) \div 2
         IN IF mid * mid <= avg THEN SqrtBetween(avg, mid, hi)
            ELSE SqrtBetween(avg, lo, mid - 1)

Sqrt(avg) == SqrtBetween(avg, 0, 32768)

\* the sum of AudioNormAverage[i] / AudioNormMaxIndex for i in lo .. hi
RECURSIVE AverageSum(_, _, _)
AverageSum(average, lo, hi) ==
    IF lo = hi THEN average[lo] \div AudioNormMaxIndex
    ELSE LET mid == (lo + hi) \div 2
         IN AverageSum(average, lo, mid) + AverageSum(average, mid + 1, hi)

\* the smoothed and clamped factor for a mean energy avg > 0
NormalizeFactor(old, avg, maxfac) ==
    LET factor == ((INT16_MAX \div 8) * 1000) \div Sqrt(avg)
        smooth == CDiv(old * 500 + factor * 500, 1000)
        low == IF smooth < AudioMinNormalize THEN AudioMinNormalize ELSE smooth
    IN IF low > maxfac THEN maxfac ELSE low

\* `if (AudioNormReady < AudioNormMaxIndex) ... else`: the history is full
HistoryFull(ready) == ~(ready < AudioNormMaxIndex)

\* what happens when AudioNormCounter has reached AudioNormSamples
NormBlockComplete(st, maxfac) ==
    LET avg == AverageSum(st.Average, 0, AudioNormMaxIndex - 1)
        next == (st.Index + 1) % AudioNormMaxIndex
    IN [st EXCEPT
           !.Ready = IF HistoryFull(st.Ready) THEN @ ELSE @ + 1,
           !.Factor = IF HistoryFull(st.Ready) /\ avg > 0
                      THEN NormalizeFactor(@, avg, maxfac) ELSE @,
           !.Index = next,
           !.Counter = 0,
           !.Average = [st.Average EXCEPT ![next] = 0],
           !.completed = @ + 1,
           !.computed = IF HistoryFull(st.Ready) THEN @ + 1 ELSE @]

\* the averaging loop `do { ... } while (l > 0)` over the block
RECURSIVE NormAverage(_, _, _)
NormAverage(st, runs, maxfac) ==
    LET l == RunsLen(runs)
        n == IF st.Counter + l > AudioNormSamples
             THEN AudioNormSamples - st.Counter ELSE l
        summed == [st EXCEPT
                      !.Average = [st.Average EXCEPT ![st.Index] = @ + RunsEnergy(runs, n)],
                      !.Counter = @ + n]
        after == IF summed.Counter >= AudioNormSamples
                 THEN NormBlockComplete(summed, maxfac) ELSE summed
    IN IF l - n > 0 THEN NormAverage(after, RunsDrop(runs, n), maxfac) ELSE after

\* AudioNormalizer: the statics after the call and the block with the factor
\* applied
AudioNormalizer(st, runs, maxfac) ==
    LET after == NormAverage([st EXCEPT !.completed = 0, !.computed = 0], runs, maxfac)
    IN [st |-> after,
        runs |-> [k \in DOMAIN runs |->
                     <<Clip16(CDiv(runs[k][1] * after.Factor, 1000)), runs[k][2]>>]]

\* AudioResetNormalizer; AudioNormIndex keeps its value
AudioResetNormalizer(st) ==
    [st EXCEPT !.Counter = 0, !.Ready = 0,
               !.Average = [i \in 0..(AudioNormMaxIndex - 1) |-> 0],
               !.Factor = 1000]

\* the statics at program start
NormStart ==
    [Counter |-> 0, Ready |-> 0, Index |-> 0,
     Average |-> [i \in 0..(AudioNormMaxIndex - 1) |-> 0],
     Factor |-> 0, completed |-> 0, computed |-> 0]

\* a block of samples as runs of one sample each, and back
RunsOf(samples) == [k \in DOMAIN samples |-> <<samples[k], 1>>]
SamplesOf(runs) == [k \in DOMAIN runs |-> runs[k][1]]

\* ------------------------------------------------------------------------
\* State
\* ------------------------------------------------------------------------
VARIABLES
    AudioRing,            \* the slots, indexed 0 .. AUDIO_RING_MAX - 1
    AudioRingWrite,       \* write index
    AudioRingRead,        \* read index
    AudioRingFilled,      \* atomic counter
    AudioStartThreshold,  \* bytes
    AudioRunning,         \* 0 / 1
    AudioPaused,          \* 0 / 1
    AudioVideoIsReady,    \* 0 / 1
    AudioSkip,            \* bytes still to skip
    AudioThreadStop,      \* 0 / 1
    hw,                   \* the sink: handle, configured format, queued bytes
    cpc,                  \* play thread: position
    flush,                \* play thread: local `flush`
    signalled,            \* AudioStartCond: the waiting thread has been woken
    ppc,                  \* producer context: position
    parg,                 \* producer context: arguments of the running call
    pi,                   \* producer context: loop counter `i` of AudioFlushBuffers
    todo,                 \* calls the workload still makes
    dsp,                  \* sample path: settings, filter statics, run of calls
    call,                 \* sample path: the last call, its inputs and results
    hist                  \* history: last AudioSetup result, slots allocated, start level
                          \* reached, slot of the last flush, call that started playback last,
                          \* the thread has seen AudioPaused set, AudioPaused at the start
                          \* of the thread's current iteration

ringVars == <<AudioRing, AudioRingWrite, AudioRingRead, AudioRingFilled>>
flagVars == <<AudioRunning, AudioPaused, AudioVideoIsReady, AudioSkip, AudioThreadStop>>
consVars == <<cpc, flush>>
prodVars == <<ppc, parg, pi, todo>>
dspVars == <<dsp, call>>
mainVars == <<AudioRing, AudioRingWrite, AudioRingRead, AudioRingFilled,
              AudioStartThreshold, AudioRunning, AudioPaused, AudioVideoIsReady,
              AudioSkip, AudioThreadStop, hw, cpc, flush, signalled, ppc, parg,
              pi, todo, hist>>
vars == <<AudioRing, AudioRingWrite, AudioRingRead, AudioRingFilled,
          AudioStartThreshold, AudioRunning, AudioPaused, AudioVideoIsReady,
          AudioSkip, AudioThreadStop, hw, cpc, flush, signalled, ppc, parg,
          pi, todo, hist, dsp, call>>

Slots == 0..(AUDIO_RING_MAX - 1)

\* a slot of the zero-initialised static array, with its RingBufferNew buffer
EmptySlot ==
    [FlushBuffers |-> 0, Passthrough |-> 0, PacketSize |-> 0,
     HwSampleRate |-> 0, HwChannels |-> 0, InSampleRate |-> 0,
     InChannels |-> 0, PTS |-> 0, RingBuffer |-> <<>>]

NoArg == [count |-> 0, pts |-> 0, frame |-> FALSE]

Used(i) == RingBufferUsedBytes(AudioRing[i].RingBuffer)

\* a variant of the threshold that leaves VideoAudioDelay out of the delay
StartThresholdOfBufferTime(period_size, freq, channels, buffertime, avdelay) ==
    LET period == period_size * channels * AudioBytesProSample
        want == (freq * channels * AudioBytesProSample * buffertime) \div 1000
        t == IF period < want THEN want ELSE period
    IN IF t > AudioRingBufferSize \div 3 THEN AudioRingBufferSize \div 3 ELSE t

\* AudioStartThreshold as AlsaSetup computes it: the period of the device
\* in bytes, raised to the bytes of the buffer time plus a positive
\* audio/video delay (90 kHz ticks), capped at a third of the ring buffer
AlsaStartThreshold(period_size, freq, channels, buffertime, avdelay) ==
    LET period == period_size * channels * AudioBytesProSample
        delay == buffertime + (IF avdelay > 0 THEN avdelay \div 90 ELSE 0)
        want == (freq * channels * AudioBytesProSample * delay) \div 1000
        t == IF period < want THEN want ELSE period
    IN IF t > AudioRingBufferSize \div 3 THEN AudioRingBufferSize \div 3 ELSE t

\* the threshold for a format on the device of this model
StartThresholdFor(freq, channels) ==
    AlsaStartThreshold(HwPeriodFrames, freq, channels, AudioBufferTime, VideoAudioDelay)

\* ------------------------------------------------------------------------
\* Inputs of the calls
\* ------------------------------------------------------------------------
Stereo48 == [rate |-> 48000, channels |-> 2, passthrough |-> 0]
Mono44 == [rate |-> 44100, channels |-> 1, passthrough |-> 0]
\* refused: 192 kHz is in the table but the hardware has no channels for it,
\* 32 kHz is not in the table, 0 is no rate
Refused == { [rate |-> 192000, channels |-> 2, passthrough |-> 0],
             [rate |-> 32000, channels |-> 2, passthrough |-> 0],
             [rate |-> 0, channels |-> 2, passthrough |-> 0] }

\* outframes: ~24 ms and 360 ms of 48 kHz stereo
SmallFrame == 4608
BigFrame == 69120
FramePTS == 900000
Frame(rate, channels, count, pts) ==
    [rate |-> rate, channels |-> channels, count |-> count, pts |-> pts]

VideoEarly == 947240
VideoLate == 960000
\* the time stamp of a frame of a second stream
OtherPTS == 892000

\* the workloads: how many calls of each kind are made, with which inputs.
\* the ring under contention: allocations (and one flush) against the thread
RingWork ==
    [alloc |-> MaxAllocs, enq |-> 1, flush |-> 1, video |-> 0, pause |-> 0, exit |-> 0, fault |-> 0,
     setups |-> {Stereo48} \cup Refused,
     frames |-> {Frame(48000, 2, SmallFrame, FramePTS)},
     videos |-> {}]

\* the start of playback: frames and the video-ready report
StartWork ==
    [alloc |-> 1, enq |-> MaxEnqueues, flush |-> 0, video |-> 1, pause |-> 0, exit |-> 0, fault |-> 0,
     setups |-> {Stereo48},
     frames |-> {Frame(48000, 2, SmallFrame, FramePTS), Frame(48000, 2, BigFrame, FramePTS),
                 Frame(48000, 2, 0, FramePTS)},
     videos |-> {NoPTS, VideoEarly, VideoLate}]

\* flushes while playing
FlushWork ==
    [alloc |-> 1, enq |-> 2, flush |-> MaxFlushes, video |-> 1, pause |-> 0, exit |-> 0, fault |-> 0,
     setups |-> {Stereo48},
     frames |-> {Frame(48000, 2, BigFrame, FramePTS)},
     videos |-> {VideoEarly}]

\* pause / resume while playing, with a flush during the pause
PauseWork ==
    [alloc |-> 1, enq |-> 1, flush |-> 1, video |-> 1, pause |-> 1, exit |-> 0, fault |-> 0,
     setups |-> {Stereo48},
     frames |-> {Frame(48000, 2, BigFrame, FramePTS)},
     videos |-> {VideoEarly}]

\* shutdown, and the setup AudioEnqueue makes for a changed input rate
ExitWork ==
    [alloc |-> 1, enq |-> 2, flush |-> 0, video |-> 1, pause |-> 1, exit |-> 1, fault |-> 0,
     setups |-> {Stereo48, Mono44},
     frames |-> {Frame(44100, 1, SmallFrame, NoPTS), Frame(48000, 2, BigFrame, FramePTS)},
     videos |-> {VideoEarly}]

\* two video-ready reports around a change of the input format: the first
\* asks for more than is buffered, the second for less
SkipWork ==
    [alloc |-> 1, enq |-> 2, flush |-> 0, video |-> MaxVideoReports, pause |-> 0, exit |-> 0, fault |-> 0,
     setups |-> {Stereo48},
     frames |-> {Frame(48000, 2, SmallFrame, FramePTS), Frame(44100, 1, SmallFrame, OtherPTS)},
     videos |-> {VideoLate, VideoEarly}]

\* two flush calls, the second made when the first has given up its wait
\* for the play thread: flush commands queue up
QueueWork ==
    [alloc |-> 1, enq |-> 1, flush |-> 2, video |-> 0, pause |-> 0, exit |-> 0, fault |-> 0,
     setups |-> {Stereo48},
     frames |-> {Frame(48000, 2, BigFrame, FramePTS)},
     videos |-> {}]

\* a change of the format on a device that fails: a stereo stream, then
\* a frame of a mono stream, which AudioEnqueue gives a slot of its own, and
\* a frame at a rate that gets no slot
FaultWork ==
    [alloc |-> 1, enq |-> 2, flush |-> 0, video |-> 0, pause |-> 0, exit |-> 0, fault |-> 1,
     setups |-> {Stereo48},
     frames |-> {Frame(44100, 1, SmallFrame, NoPTS), Frame(192000, 2, SmallFrame, NoPTS)},
     videos |-> {}]

\* eight slots for a mono stream while the play thread has not moved: the
\* write index comes round to the read index
WrapWork ==
    [alloc |-> AUDIO_RING_MAX, enq |-> 1, flush |-> 0, video |-> 0, pause |-> 0, exit |-> 0,
     fault |-> 0,
     setups |-> {Mono44},
     frames |-> {Frame(44100, 1, SmallFrame, FramePTS)},
     videos |-> {}]

Workloads == {RingWork, StartWork, FlushWork, PauseWork, ExitWork, SkipWork, QueueWork,
              FaultWork, WrapWork}

\* the sample path before its first call: the statics as the program
\* starts with them
NoCall == [op |-> "none"]

\* the sample path takes no part in a run of the ring
DspIdle == [job |-> "none"]

DspStart(job, level) ==
    [job |-> job, level |-> level, left |-> 0,
     AudioVolume |-> 0, AudioMute |-> 0, AudioSoftVolume |-> 0,
     AudioAmplifier |-> 0, AudioStereoDescent |-> 0,
     AudioCompression |-> 0, AudioNormalize |-> 0,
     AudioMaxCompression |-> 0, AudioMaxNormalize |-> 0,
     AudioCompressionFactor |-> 0, norm |-> NormStart,
     resets |-> 0, completed |-> 0, firstCompute |-> 0]

\* after AudioInit: the ring is empty, the device is open, the last
\* successful probe (48 kHz stereo) has left its start threshold, and the
\* play thread has been created
Init ==
    /\ AudioRing = [i \in Slots |-> EmptySlot]
    /\ AudioRingWrite = 0
    /\ AudioRingRead = 0
    /\ AudioRingFilled = 0
    /\ AudioStartThreshold = StartThresholdFor(48000, 2)
    /\ AudioRunning = 0
    /\ AudioPaused = 0
    /\ AudioVideoIsReady = 0
    /\ AudioSkip = 0
    /\ AudioThreadStop = 0
    /\ hw = [handle |-> TRUE, dead |-> FALSE, passthrough |-> 0, rate |-> 48000,
             channels |-> 2, queued |-> 0]
    /\ cpc = "top"
    /\ flush = 0
    /\ signalled = FALSE
    /\ ppc = "idle"
    /\ parg = NoArg
    /\ pi = 0
    /\ todo \in Workloads
    /\ dsp = DspIdle
    /\ call = NoCall
    /\ hist = [ret |-> 0, allocs |-> 0, crossed |-> FALSE, flushed |-> -1,
               starter |-> "none", sawPause |-> FALSE, cyclePaused |-> FALSE]


\* ------------------------------------------------------------------------
\* Signalling (pthread_cond_signal / pthread_cond_wait on AudioStartCond)
\* ------------------------------------------------------------------------
\* a signal wakes the play thread only if it is blocked in pthread_cond_wait
\* at that moment; otherwise it is gone
CondSignal == signalled' = (signalled \/ cpc = "waiting")

\* ------------------------------------------------------------------------
\* AudioSetup / AudioRingAdd
\* ------------------------------------------------------------------------
\* variants of the free-slot test: one slot late, one slot early
RingAddNoFreeSlotLate == AudioRingFilled = AUDIO_RING_MAX + 1

RingAddNoFreeSlotEarly == AudioRingFilled >= AUDIO_RING_MAX - 1

\* atomic_read(&AudioRingFilled) == AUDIO_RING_MAX
RingAddNoFreeSlot == AudioRingFilled = AUDIO_RING_MAX

\* the checks of AudioRingAdd: the rate is in the table, the matrix has an
\* entry for the channels, a slot is free
RingAddAccepts(sample_rate, channels) ==
    /\ RateIndex(sample_rate) # 0
    /\ AudioChannelMatrix(RateIndex(sample_rate), channels) # 0

\* a variant of the new write slot that keeps what the slot's buffer held
RingAddSlotKeepsBuffer(s, sample_rate, channels, passthrough) ==
    [s EXCEPT !.FlushBuffers = 0,
              !.Passthrough = passthrough,
              !.PacketSize = 0,
              !.InSampleRate = sample_rate,
              !.InChannels = channels,
              !.HwSampleRate = sample_rate,
              !.HwChannels = AudioChannelMatrix(RateIndex(sample_rate), channels),
              !.PTS = NoPTS]

\* the fields AudioRingAdd gives the new write slot `s`
RingAddSlot(s, sample_rate, channels, passthrough) ==
    [s EXCEPT !.FlushBuffers = 0,
              !.Passthrough = passthrough,
              !.PacketSize = 0,
              !.InSampleRate = sample_rate,
              !.InChannels = channels,
              !.HwSampleRate = sample_rate,
              !.HwChannels = AudioChannelMatrix(RateIndex(sample_rate), channels),
              !.PTS = NoPTS,
              !.RingBuffer = RingBufferReset]

\* AudioRingAdd up to (not including) atomic_inc. `frame` tells that the
\* caller is AudioEnqueue, which goes on with its frame (count, pts) after
\* the return, whatever the result
AudioRingAdd(sample_rate, channels, passthrough, frame, count, pts) ==
    LET w == (AudioRingWrite + 1) % AUDIO_RING_MAX IN
    IF ~RingAddAccepts(sample_rate, channels) \/ RingAddNoFreeSlot
    THEN /\ ppc' = IF frame THEN "enq" ELSE "idle"
         /\ parg' = IF frame THEN [count |-> count, pts |-> pts, frame |-> TRUE] ELSE NoArg
         /\ hist' = IF frame THEN hist ELSE [hist EXCEPT !.ret = -1]
         /\ UNCHANGED <<AudioRing, AudioRingWrite>>
    ELSE /\ AudioRingWrite' = w
         /\ AudioRing' = [AudioRing EXCEPT ![w] =
                              RingAddSlot(@, sample_rate, channels, passthrough)]
         /\ ppc' = "ringadd_inc"
         /\ parg' = [count |-> count, pts |-> pts, frame |-> frame]
         /\ hist' = [hist EXCEPT !.allocs = @ + 1]

\* AudioSetup: rejects zero parameters, else calls AudioRingAdd
AudioSetup(a) ==
    /\ ppc = "idle"
    /\ UNCHANGED dspVars
    /\ todo.alloc > 0
    /\ todo' = [todo EXCEPT !.alloc = @ - 1]
    /\ IF a.rate = 0 \/ a.channels = 0
       THEN /\ hist' = [hist EXCEPT !.ret = -1]
            /\ UNCHANGED <<AudioRing, AudioRingWrite, ppc, parg>>
       ELSE AudioRingAdd(a.rate, a.channels, a.passthrough, FALSE, 0, 0)
    /\ UNCHANGED <<AudioRingRead, AudioRingFilled, AudioStartThreshold, flagVars,
                   hw, consVars, signalled, pi>>

\* atomic_inc(&AudioRingFilled)
AudioRingAddInc ==
    /\ ppc = "ringadd_inc"
    /\ UNCHANGED dspVars
    /\ AudioRingFilled' = AudioRingFilled + 1
    /\ ppc' = "ringadd_wake"
    /\ UNCHANGED <<AudioRing, AudioRingWrite, AudioRingRead, AudioStartThreshold,
                   flagVars, hw, consVars, signalled, parg, pi, todo, hist>>

\* AudioRunning = 1; pthread_cond_signal(&AudioStartCond); return 0
AudioRingAddWake ==
    /\ ppc = "ringadd_wake"
    /\ UNCHANGED dspVars
    /\ AudioRunning' = 1
    /\ CondSignal
    /\ ppc' = IF parg.frame THEN "enq" ELSE "idle"
    /\ parg' = IF parg.frame THEN parg ELSE NoArg
    /\ hist' = IF parg.frame THEN hist ELSE [hist EXCEPT !.ret = 0]
    /\ UNCHANGED <<ringVars, AudioStartThreshold, AudioPaused, AudioVideoIsReady,
                   AudioSkip, AudioThreadStop, hw, consVars, pi, todo>>

\* ------------------------------------------------------------------------
\* AudioEnqueue
\* ------------------------------------------------------------------------
\* C conversion to int16_t (PacketSize)
ToInt16(x) == LET m == x % (2^16) IN IF m >= 2^15 THEN m - 2^16 ELSE m

\* a variant of the byte count that loses the last sample of a frame that
\* needs no remix
EnqueueCountShort(s, count) ==
    IF s.Passthrough = 0 /\ s.InChannels # s.HwChannels
    THEN (count \div (s.InChannels * AudioBytesProSample))
             * s.HwChannels * AudioBytesProSample
    ELSE count - AudioBytesProSample

\* the byte count written for `count` input bytes: the remix changes it
\* when the input and hardware channel counts differ
EnqueueCount(s, count) ==
    IF s.Passthrough = 0 /\ s.InChannels # s.HwChannels
    THEN (count \div (s.InChannels * AudioBytesProSample))
             * s.HwChannels * AudioBytesProSample
    ELSE count

\* a variant of the start test: the start threshold alone decides
EnqueueStartsAtThreshold(n) == AudioStartThreshold < n

\* "forced start or enough video + audio buffered"
EnqueueStarts(n) ==
    \/ AudioStartThreshold * 4 < n
    \/ (AudioVideoIsReady = 1 /\ AudioStartThreshold < n)

\* a variant of the guard of the producer's removals: a skip debt will do
NotRunningOrInDebt == AudioRunning = 0 \/ AudioSkip # 0

\* `if (!AudioRunning)`: the guard under which the producer context takes
\* bytes out of the write slot's buffer and decides about the start
NotRunning == AudioRunning = 0

\* the body from `if (outframe->channels)` on, for an outframe of `count`
\* bytes (0: an outframe without channels) with time stamp `pts`
EnqueueBody(count, pts) ==
    LET s == AudioRing[AudioRingWrite] IN
    IF count = 0 \/ s.HwSampleRate = 0
    THEN UNCHANGED <<AudioRing, AudioRunning, AudioSkip, signalled, hist>>
    ELSE LET written == RingBufferWrite(s.RingBuffer, EnqueueCount(s, count))
             n == RingBufferUsedBytes(written)
             skip == IF AudioSkip # 0 /\ UnsignedExceeds(AudioSkip, n) THEN n ELSE AudioSkip
             left == IF NotRunning
                     THEN RingBufferReadAdvance(written, skip) ELSE written
             start == NotRunning /\ EnqueueStarts(RingBufferUsedBytes(left))
         IN /\ AudioRing' = [AudioRing EXCEPT ![AudioRingWrite] =
                   [s EXCEPT !.PacketSize = IF @ = 0 THEN ToInt16(count) ELSE @,
                             !.RingBuffer = left,
                             !.PTS = pts]]
            /\ AudioSkip' = IF NotRunning THEN AudioSkip - skip ELSE AudioSkip
            /\ hist' = [hist EXCEPT !.crossed =
                            @ \/ RingBufferUsedBytes(left) > AudioStartThreshold,
                                    !.starter = IF start THEN "enqueue" ELSE @]
            /\ IF start
               THEN AudioRunning' = 1 /\ CondSignal
               ELSE UNCHANGED <<AudioRunning, signalled>>

\* the call with an inframe: a sample rate differing from the write slot's
\* hardware rate makes AudioEnqueue call AudioSetup first; f.count and f.pts
\* are what the filter graph hands back
AudioEnqueueCall(f) ==
    /\ ppc = "idle"
    /\ UNCHANGED dspVars
    /\ todo.enq > 0
    /\ todo' = [todo EXCEPT !.enq = @ - 1]
    /\ IF f.rate # AudioRing[AudioRingWrite].HwSampleRate
       THEN /\ AudioRingAdd(f.rate, f.channels, 0, TRUE, f.count, f.pts)
            /\ UNCHANGED <<AudioRunning, AudioSkip, signalled>>
       ELSE /\ EnqueueBody(f.count, f.pts)
            /\ UNCHANGED <<AudioRingWrite, ppc, parg>>
    /\ UNCHANGED <<AudioRingRead, AudioRingFilled, AudioStartThreshold, AudioPaused,
                   AudioVideoIsReady, AudioThreadStop, hw, consVars, pi>>

\* the rest of AudioEnqueue after its call of AudioSetup
AudioEnqueue ==
    /\ ppc = "enq"
    /\ UNCHANGED dspVars
    /\ ppc' = "idle"
    /\ parg' = NoArg
    /\ EnqueueBody(parg.count, parg.pts)
    /\ UNCHANGED <<AudioRingWrite, AudioRingRead, AudioRingFilled, AudioStartThreshold,
                   AudioPaused, AudioVideoIsReady, AudioThreadStop, hw, consVars,
                   pi, todo>>

\* ------------------------------------------------------------------------
\* AudioVideoReady
\* ------------------------------------------------------------------------
\* bytes per second of a slot's hardware format
BytesPerSecond(s) == s.HwSampleRate * s.HwChannels * AudioBytesProSample

\* `skip` in time stamps: video pts less ~15 video frames, the buffer time
\* and the audio clock of the write slot
VideoSkipTicks(s, pts) ==
    LET used == RingBufferUsedBytes(s.RingBuffer)
        audio_pts == s.PTS - MulDiv(used, 90 * 1000, BytesPerSecond(s))
    IN pts - 15 * 20 * 90 - AudioBufferTime * 90 - audio_pts + VideoAudioDelay

\* `skip` converted to bytes of the hardware format
VideoSkipBytes(s, ticks) ==
    MulDiv(ticks, s.HwSampleRate, 1000 * 90) * s.HwChannels * AudioBytesProSample

AudioVideoReady(pts) ==
    /\ ppc = "idle"
    /\ UNCHANGED dspVars
    /\ todo.video > 0
    /\ todo' = [todo EXCEPT !.video = @ - 1]
    /\ LET s == AudioRing[AudioRingWrite] IN
       IF pts = NoPTS
       THEN UNCHANGED <<AudioRing, AudioRunning, AudioVideoIsReady, AudioSkip, signalled,
                        hist>>
       ELSE IF s.HwSampleRate = 0 \/ s.HwChannels = 0 \/ s.PTS = NoPTS
       THEN /\ AudioVideoIsReady' = 1
            /\ UNCHANGED <<AudioRing, AudioRunning, AudioSkip, signalled, hist>>
       ELSE IF ~NotRunning
       THEN /\ AudioVideoIsReady' = 1
            /\ UNCHANGED <<AudioRing, AudioRunning, AudioSkip, signalled, hist>>
       ELSE LET used == RingBufferUsedBytes(s.RingBuffer)
                ticks == VideoSkipTicks(s, pts)
                guarded == ticks > 0 /\ ticks < 2000 * 90
                bytes == IF guarded THEN VideoSkipBytes(s, ticks) ELSE 0
                over == guarded /\ UnsignedExceeds(bytes, used)
                skip == IF ~guarded THEN 0 ELSE IF over THEN used ELSE bytes
                left == RingBufferReadAdvance(s.RingBuffer, skip)
            IN /\ AudioSkip' = IF over THEN bytes - used ELSE AudioSkip
               /\ AudioRing' = [AudioRing EXCEPT ![AudioRingWrite].RingBuffer = left]
               /\ IF AudioStartThreshold < RingBufferUsedBytes(left)
                  THEN /\ AudioRunning' = 1
                       /\ CondSignal
                       /\ hist' = [hist EXCEPT !.starter = "video"]
                  ELSE UNCHANGED <<AudioRunning, signalled, hist>>
               /\ AudioVideoIsReady' = 1
    /\ UNCHANGED <<AudioRingWrite, AudioRingRead, AudioRingFilled, AudioStartThreshold,
                   AudioPaused, AudioThreadStop, hw, consVars, ppc, parg, pi>>

\* ------------------------------------------------------------------------
\* AudioFlushBuffers
\* ------------------------------------------------------------------------
\* history tagging of every buffered byte when a flush call returns
Aged(ring, a) ==
    [i \in Slots |-> [ring[i] EXCEPT !.RingBuffer = AgedBuffer(@, a)]]

\* a variant of the test for room: one slot late
FlushNoFreeSlotLate == AudioRingFilled > AUDIO_RING_MAX

\* atomic_read(&AudioRingFilled) >= AUDIO_RING_MAX
FlushNoFreeSlot == AudioRingFilled >= AUDIO_RING_MAX

\* a variant of the flush slot that keeps the pts the slot had
FlushSlotKeepsPTS(new, old) ==
    [new EXCEPT !.FlushBuffers = 1,
                !.Passthrough = old.Passthrough,
                !.HwSampleRate = old.HwSampleRate,
                !.HwChannels = old.HwChannels,
                !.InSampleRate = old.InSampleRate,
                !.InChannels = old.InChannels,
                !.RingBuffer = RingBufferReadAdvance(@, RingBufferUsedBytes(@))]

\* the new write slot of a flush: format of the previous one, flush flag set,
\* pts unknown, buffer emptied
FlushSlot(new, old) ==
    [new EXCEPT !.FlushBuffers = 1,
                !.Passthrough = old.Passthrough,
                !.HwSampleRate = old.HwSampleRate,
                !.HwChannels = old.HwChannels,
                !.InSampleRate = old.InSampleRate,
                !.InChannels = old.InChannels,
                !.PTS = NoPTS,
                !.RingBuffer = RingBufferReadAdvance(@, RingBufferUsedBytes(@))]

\* one read of the counter in the wait for space (pi counts the sleeps so
\* far): with room, the allocation up to (not including) atomic_inc; without,
\* sleep and read again, 24 * 2 times, then give up
FlushSpin ==
    LET w == (AudioRingWrite + 1) % AUDIO_RING_MAX IN
    IF ~FlushNoFreeSlot
    THEN /\ AudioRingWrite' = w
         /\ AudioRing' = [AudioRing EXCEPT ![w] = FlushSlot(@, AudioRing[AudioRingWrite])]
         /\ AudioVideoIsReady' = 0
         /\ AudioSkip' = 0
         /\ ppc' = "flush_inc"
         /\ pi' = 0
         /\ hist' = [hist EXCEPT !.allocs = @ + 1, !.flushed = w]
    ELSE IF pi < FlushPolls
    THEN /\ pi' = pi + 1
         /\ ppc' = "flush"
         /\ UNCHANGED <<AudioRing, AudioRingWrite, AudioVideoIsReady, AudioSkip, hist>>
    ELSE /\ ppc' = "idle"
         /\ pi' = 0
         /\ AudioRing' = Aged(AudioRing, 1)
         /\ UNCHANGED <<AudioRingWrite, AudioVideoIsReady, AudioSkip, hist>>

\* the call, with its first read of the counter
AudioFlushBuffers ==
    /\ ppc = "idle"
    /\ UNCHANGED dspVars
    /\ todo.flush > 0
    /\ todo' = [todo EXCEPT !.flush = @ - 1]
    /\ FlushSpin
    /\ UNCHANGED <<AudioRingRead, AudioRingFilled, AudioStartThreshold, AudioRunning,
                   AudioPaused, AudioThreadStop, hw, consVars, signalled, parg>>

\* a later read of the counter in the wait for space
AudioFlushBuffersSpin ==
    /\ ppc = "flush"
    /\ UNCHANGED dspVars
    /\ FlushSpin
    /\ UNCHANGED <<AudioRingRead, AudioRingFilled, AudioStartThreshold, AudioRunning,
                   AudioPaused, AudioThreadStop, hw, consVars, signalled, parg, todo>>

\* atomic_inc(&AudioRingFilled)
AudioFlushBuffersInc ==
    /\ ppc = "flush_inc"
    /\ UNCHANGED dspVars
    /\ AudioRingFilled' = AudioRingFilled + 1
    /\ ppc' = "flush_wait"
    /\ UNCHANGED <<AudioRing, AudioRingWrite, AudioRingRead, AudioStartThreshold,
                   flagVars, hw, consVars, signalled, parg, pi, todo, hist>>

\* a variant of the test that ends the wait: one slot still queued will do
FlushDoneEarly == AudioRingFilled <= 1

\* `if (!atomic_read(&AudioRingFilled)) break;`
FlushDone == AudioRingFilled = 0

\* one round of the wait for the flush: wake the thread if it is not
\* running, leave when the counter reads 0, else sleep; 24 * 2 rounds
AudioFlushBuffersWait ==
    /\ ppc = "flush_wait"
    /\ UNCHANGED dspVars
    /\ IF pi < FlushPolls
       THEN /\ IF AudioRunning = 0
               THEN AudioRunning' = 1 /\ CondSignal
               ELSE UNCHANGED <<AudioRunning, signalled>>
            /\ IF FlushDone
               THEN ppc' = "idle" /\ pi' = 0 /\ AudioRing' = Aged(AudioRing, 2)
               ELSE ppc' = "flush_wait" /\ pi' = pi + 1 /\ UNCHANGED AudioRing
       ELSE /\ ppc' = "idle"
            /\ pi' = 0
            /\ AudioRing' = Aged(AudioRing, 1)
            /\ UNCHANGED <<AudioRunning, signalled>>
    /\ UNCHANGED <<AudioRingWrite, AudioRingRead, AudioRingFilled, AudioStartThreshold,
                   AudioPaused, AudioVideoIsReady, AudioSkip, AudioThreadStop, hw,
                   consVars, parg, todo, hist>>

\* ------------------------------------------------------------------------
\* AudioPause, AudioPlay, AudioExitThread
\* ------------------------------------------------------------------------
AudioPause ==
    /\ ppc = "idle"
    /\ UNCHANGED dspVars
    /\ todo.pause > 0
    /\ AudioPaused = 0
    /\ todo' = [todo EXCEPT !.pause = @ - 1]
    /\ AudioPaused' = 1
    /\ UNCHANGED <<ringVars, AudioStartThreshold, AudioRunning, AudioVideoIsReady,
                   AudioSkip, AudioThreadStop, hw, consVars, signalled, ppc, parg, pi, hist>>

\* clears the flag and calls AudioEnqueue(NULL, 0, NULL) "to wake the thread":
\* without an inframe the outframe of av_frame_alloc has no channels
AudioPlay ==
    /\ ppc = "idle"
    /\ UNCHANGED dspVars
    /\ AudioPaused = 1
    /\ AudioPaused' = 0
    /\ EnqueueBody(0, 0)
    /\ UNCHANGED <<AudioRingWrite, AudioRingRead, AudioRingFilled, AudioStartThreshold,
                   AudioVideoIsReady, AudioThreadStop, hw, consVars, prodVars>>

\* AudioThreadStop = 1; AudioRunning = 1; pthread_cond_signal
AudioExitThread ==
    /\ ppc = "idle"
    /\ UNCHANGED dspVars
    /\ todo.exit > 0
    /\ todo' = [todo EXCEPT !.exit = @ - 1]
    /\ AudioThreadStop' = 1
    /\ AudioRunning' = 1
    /\ CondSignal
    /\ ppc' = "join"
    /\ UNCHANGED <<ringVars, AudioStartThreshold, AudioPaused, AudioVideoIsReady,
                   AudioSkip, hw, consVars, parg, pi, hist>>

\* pthread_join returns once the play thread has returned
AudioExitThreadJoin ==
    /\ ppc = "join"
    /\ UNCHANGED dspVars
    /\ cpc = "done"
    /\ ppc' = "exited"
    /\ UNCHANGED <<ringVars, AudioStartThreshold, flagVars, hw, consVars, signalled,
                   parg, pi, todo, hist>>

\* ------------------------------------------------------------------------
\* The sink (ALSA), as the play thread uses it
\* ------------------------------------------------------------------------
\* snd_pcm_avail_update in bytes: the free part of the device buffer
HwAvail == HwBufferFrames * hw.channels * AudioBytesProSample - hw.queued

\* AlsaSetup for the format (freq, channels, passthrough): -1 without a
\* handle; else the device is closed and opened again (what it had queued is
\* gone; a device that has failed cannot be opened and the handle stays
\* NULL) and snd_pcm_set_params decides; on success the start threshold is
\* recomputed
AlsaSetup(freq, channels, passthrough) ==
    IF ~hw.handle
    THEN [ret |-> -1, hw |-> hw, threshold |-> AudioStartThreshold]
    ELSE IF hw.dead
    THEN [ret |-> -1, hw |-> [hw EXCEPT !.handle = FALSE, !.queued = 0],
          threshold |-> AudioStartThreshold]
    ELSE IF ~HwAccepts(freq, channels)
    THEN [ret |-> -1, hw |-> [hw EXCEPT !.queued = 0], threshold |-> AudioStartThreshold]
    ELSE [ret |-> 0,
          hw |-> [handle |-> TRUE, dead |-> FALSE, passthrough |-> passthrough,
                  rate |-> freq, channels |-> channels, queued |-> 0],
          threshold |-> StartThresholdFor(freq, channels)]

\* a variant of AudioNextRing that leaves the slot's format as it is when
\* the setup fails
AudioNextRingKeepsFormat(ring, read) ==
    LET s == ring[read]
        r == AlsaSetup(s.HwSampleRate, s.HwChannels, s.Passthrough)
        used == RingBufferUsedBytes(s.RingBuffer)
    IN IF r.ret # 0
       THEN [ret |-> -1, hw |-> r.hw, threshold |-> r.threshold, ring |-> ring]
       ELSE [ret |-> IF r.threshold * 4 < used
                        \/ (AudioVideoIsReady = 1 /\ r.threshold < used)
                     THEN 0 ELSE 1,
             hw |-> r.hw, threshold |-> r.threshold, ring |-> ring]

\* AudioNextRing on the ring `ring` with read index `read`: the ring, sink
\* and threshold it leaves and its return value (-1 setup failed, 1 not
\* enough buffered to go on, 0 go on)
AudioNextRing(ring, read) ==
    LET s == ring[read]
        r == AlsaSetup(s.HwSampleRate, s.HwChannels, s.Passthrough)
        used == RingBufferUsedBytes(s.RingBuffer)
    IN IF r.ret # 0
       THEN [ret |-> -1, hw |-> r.hw, threshold |-> r.threshold,
             ring |-> [ring EXCEPT ![read].HwSampleRate = 0, ![read].InSampleRate = 0]]
       ELSE [ret |-> IF r.threshold * 4 < used
                        \/ (AudioVideoIsReady = 1 /\ r.threshold < used)
                     THEN 0 ELSE 1,
             hw |-> r.hw, threshold |-> r.threshold, ring |-> ring]

\* the device plays out what it has queued
HwPlay ==
    /\ hw.queued > 0
    /\ UNCHANGED dspVars
    /\ hw' = [hw EXCEPT !.queued = 0]
    /\ UNCHANGED <<ringVars, AudioStartThreshold, flagVars, consVars, signalled,
                   prodVars, hist>>

\* the device fails for good (it is unplugged, its driver gives up): from
\* now on every call on the handle returns an error that snd_pcm_recover
\* does not repair, and the device cannot be opened again
SinkFails ==
    /\ todo.fault > 0
    /\ UNCHANGED dspVars
    /\ hw.handle /\ ~hw.dead
    /\ hw' = [hw EXCEPT !.dead = TRUE]
    /\ todo' = [todo EXCEPT !.fault = @ - 1]
    /\ UNCHANGED <<ringVars, AudioStartThreshold, flagVars, consVars, signalled,
                   ppc, parg, pi, hist>>

\* ------------------------------------------------------------------------
\* AudioPlayHandlerThread
\* ------------------------------------------------------------------------
\* where the thread goes at the end of an iteration of its inner loop:
\* `if (AudioPaused) break;` and `while (AudioRing[AudioRingRead].HwSampleRate)`
LoopEnd(ring, read) ==
    IF AudioPaused # 0 THEN "top"
    ELSE IF ring[read].HwSampleRate = 0 THEN "top"
    ELSE "loop"

\* top of the outer loop: the stop check, then pthread_mutex_lock and
\* AudioRunning = 0
ThreadTop ==
    /\ cpc = "top"
    /\ UNCHANGED dspVars
    /\ IF AudioThreadStop # 0
       THEN cpc' = "done" /\ UNCHANGED AudioRunning
       ELSE cpc' = "lock" /\ AudioRunning' = 0
    /\ UNCHANGED <<ringVars, AudioStartThreshold, AudioPaused, AudioVideoIsReady,
                   AudioSkip, AudioThreadStop, hw, flush, signalled, prodVars, hist>>

\* pthread_cond_wait: the thread starts to wait
ThreadWait ==
    /\ cpc = "lock"
    /\ UNCHANGED dspVars
    /\ cpc' = "waiting"
    /\ signalled' = FALSE
    /\ UNCHANGED <<ringVars, AudioStartThreshold, flagVars, hw, flush, prodVars, hist>>

\* pthread_cond_wait returns after a signal; `while (!AudioRunning)`
ThreadWake ==
    /\ cpc = "waiting"
    /\ UNCHANGED dspVars
    /\ signalled
    /\ signalled' = FALSE
    /\ cpc' = IF AudioRunning # 0 THEN "loop" ELSE "waiting"
    /\ UNCHANGED <<ringVars, AudioStartThreshold, flagVars, hw, flush, prodVars, hist>>

\* pthread_cond_wait may return without a signal
ThreadSpuriousWake ==
    /\ cpc = "waiting"
    /\ UNCHANGED dspVars
    /\ ~signalled
    /\ AudioRunning # 0
    /\ cpc' = "loop"
    /\ UNCHANGED <<ringVars, AudioStartThreshold, flagVars, hw, flush, signalled,
                   prodVars, hist>>

\* a variant of the scan that looks at every slot after the read index, not
\* only at the filled ones
FlushOffsetsOfAllSlots ==
    {k \in 1..AUDIO_RING_MAX :
        AudioRing[(AudioRingRead + k) % AUDIO_RING_MAX].FlushBuffers # 0}

\* the offsets 1 .. filled after the read index whose slot has FlushBuffers set
FlushOffsets ==
    {k \in 1..AudioRingFilled :
        AudioRing[(AudioRingRead + k) % AUDIO_RING_MAX].FlushBuffers # 0}

\* a variant of the scan that stops at the first flagged slot it finds
FlushScanFirst == CHOOSE k \in FlushOffsets : \A j \in FlushOffsets : k <= j

\* the offset the scan ends on: every flagged slot in the range is handled,
\* the read index is left on the last one
FlushScanTarget == CHOOSE k \in FlushOffsets : \A j \in FlushOffsets : j <= k

\* start of an iteration of the inner loop: the stop check and the scan for
\* a flush command in the queue
ThreadLoop ==
    /\ cpc = "loop"
    /\ UNCHANGED dspVars
    /\ IF AudioThreadStop # 0
       THEN cpc' = "done" /\ UNCHANGED <<AudioRing, AudioRingRead, flush>>
       ELSE IF FlushOffsets = {}
       THEN cpc' = "play" /\ flush' = 0 /\ UNCHANGED <<AudioRing, AudioRingRead>>
       ELSE /\ AudioRing' = [i \in Slots |->
                   IF \E k \in FlushOffsets : i = (AudioRingRead + k) % AUDIO_RING_MAX
                   THEN [AudioRing[i] EXCEPT !.FlushBuffers = 0]
                   ELSE AudioRing[i]]
            /\ AudioRingRead' = (AudioRingRead + FlushScanTarget) % AUDIO_RING_MAX
            /\ flush' = FlushScanTarget
            /\ cpc' = "flushing"
    /\ hist' = [hist EXCEPT !.cyclePaused = AudioPaused # 0]
    /\ UNCHANGED <<AudioRingWrite, AudioRingFilled, AudioStartThreshold, flagVars,
                   hw, signalled, prodVars>>

\* `if (flush)`: AlsaFlushBuffers, atomic_sub, AudioNextRing
ThreadFlush ==
    /\ cpc = "flushing"
    /\ UNCHANGED dspVars
    /\ AudioRingFilled' = AudioRingFilled - flush
    /\ flush' = 0
    /\ LET r == AudioNextRing(AudioRing, AudioRingRead) IN
       /\ AudioRing' = r.ring
       /\ hw' = r.hw
       /\ AudioStartThreshold' = r.threshold
       /\ cpc' = IF r.ret # 0 THEN "top" ELSE "play"
    /\ UNCHANGED <<AudioRingWrite, AudioRingRead, flagVars, signalled, prodVars, hist>>

\* a variant of AlsaThread without its tests of AudioPaused
AlsaThreadBytesWhilePaused ==
    IF ~hw.handle \/ hw.dead \/ HwAvail < 256 THEN 0
    ELSE Min(HwAvail, Used(AudioRingRead))

\* the device has failed for good: snd_pcm_wait, snd_pcm_avail_update and
\* snd_pcm_writei return an error and snd_pcm_recover cannot help
SinkFailed == hw.handle /\ hw.dead

\* bytes one AlsaThread call moves from the read slot to the device: none
\* without a handle, when paused, when the device has failed (AlsaThread
\* returns -1) or when the device has no room
AlsaThreadBytes ==
    IF ~hw.handle \/ AudioPaused # 0 \/ hw.dead \/ HwAvail < 256 THEN 0
    ELSE Min(HwAvail, Used(AudioRingRead))

\* what snd_pcm_writei takes of them: whole frames of the device format
\* (snd_pcm_bytes_to_frames); the read pointer advances by all of them
AlsaWrittenBytes ==
    LET frame == hw.channels * AudioBytesProSample
    IN (AlsaThreadBytes \div frame) * frame

\* "try to play some samples", and the underrun check up to atomic_dec
ThreadPlay ==
    /\ cpc = "play"
    /\ UNCHANGED dspVars
    /\ IF Used(AudioRingRead) # 0
       THEN /\ AudioRing' = [AudioRing EXCEPT ![AudioRingRead].RingBuffer =
                                 RingBufferReadAdvance(@, AlsaThreadBytes)]
            /\ hw' = [hw EXCEPT !.queued = @ + AlsaWrittenBytes]
            /\ cpc' = LoopEnd(AudioRing, AudioRingRead)
            /\ hist' = [hist EXCEPT !.sawPause = @ \/ AudioPaused # 0]
            /\ UNCHANGED AudioRingFilled
       ELSE IF AudioRingFilled = 0
       THEN cpc' = "top" /\ UNCHANGED <<AudioRing, AudioRingFilled, hw, hist>>
       ELSE /\ AudioRingFilled' = AudioRingFilled - 1
            /\ cpc' = "adv"
            /\ UNCHANGED <<AudioRing, hw, hist>>
    /\ UNCHANGED <<AudioRingWrite, AudioRingRead, AudioStartThreshold, flagVars,
                   flush, signalled, prodVars>>

\* the read index moves on; a changed format is set up with AudioNextRing
ThreadAdvance ==
    /\ cpc = "adv"
    /\ UNCHANGED dspVars
    /\ LET old == AudioRing[AudioRingRead]
           read == (AudioRingRead + 1) % AUDIO_RING_MAX
           new == AudioRing[read]
           r == AudioNextRing(AudioRing, read)
       IN /\ AudioRingRead' = read
          /\ IF old.Passthrough # new.Passthrough
                \/ old.HwSampleRate # new.HwSampleRate
                \/ old.HwChannels # new.HwChannels
             THEN /\ AudioRing' = r.ring
                  /\ hw' = r.hw
                  /\ AudioStartThreshold' = r.threshold
                  /\ cpc' = IF r.ret # 0 THEN "top" ELSE LoopEnd(r.ring, read)
                  /\ hist' = [hist EXCEPT !.sawPause =
                                  @ \/ (r.ret = 0 /\ AudioPaused # 0)]
             ELSE /\ cpc' = LoopEnd(AudioRing, read)
                  /\ hist' = [hist EXCEPT !.sawPause = @ \/ AudioPaused # 0]
                  /\ UNCHANGED <<AudioRing, hw, AudioStartThreshold>>
    /\ UNCHANGED <<AudioRingWrite, AudioRingFilled, flagVars, flush, signalled, prodVars>>

\* ------------------------------------------------------------------------
\* AudioGetDelay, AudioGetClock
\* ------------------------------------------------------------------------
\* AlsaGetDelay: what the device has queued, in time stamps
AlsaGetDelay ==
    LET s == AudioRing[AudioRingRead] IN
    IF ~hw.handle \/ s.HwSampleRate = 0 THEN 0
    ELSE MulDiv(hw.queued \div (hw.channels * AudioBytesProSample), 90 * 1000,
                s.HwSampleRate)

AudioGetDelay ==
    LET s == AudioRing[AudioRingRead] IN
    IF AudioRunning = 0 THEN 0
    ELSE IF s.HwSampleRate = 0 THEN 0
    ELSE IF AudioRingFilled # 0 THEN 0
    ELSE AlsaGetDelay
         + MulDiv(RingBufferUsedBytes(s.RingBuffer), 90 * 1000, BytesPerSecond(s))

AudioGetClock ==
    LET s == AudioRing[AudioRingRead] IN
    IF s.PTS # NoPTS /\ AudioGetDelay # 0 THEN s.PTS - AudioGetDelay ELSE NoPTS

\* ------------------------------------------------------------------------
\* Specification
\* ------------------------------------------------------------------------
Producer ==
    \/ \E a \in todo.setups : AudioSetup(a)
    \/ AudioRingAddInc
    \/ AudioRingAddWake
    \/ \E f \in todo.frames : AudioEnqueueCall(f)
    \/ AudioEnqueue
    \/ \E pts \in todo.videos : AudioVideoReady(pts)
    \/ AudioFlushBuffers
    \/ AudioFlushBuffersSpin
    \/ AudioFlushBuffersInc
    \/ AudioFlushBuffersWait
    \/ AudioPause
    \/ AudioPlay
    \/ AudioExitThread
    \/ AudioExitThreadJoin

\* the steps the play thread takes by itself
Thread ==
    \/ ThreadTop
    \/ ThreadWait
    \/ ThreadWake
    \/ ThreadLoop
    \/ ThreadFlush
    \/ ThreadPlay
    \/ ThreadAdvance

Next == Producer \/ Thread \/ ThreadSpuriousWake \/ HwPlay \/ SinkFails

Spec == Init /\ [][Next]_vars

\* ------------------------------------------------------------------------
\* The sample path as a state machine of its own: the filter and volume
\* settings (dsp), and the last call into the sample path with its inputs
\* and results (call). The ring is left as DspInit sets it up.
\* ------------------------------------------------------------------------
\* the formats of the slot the sample path works on: in-channels,
\* hardware channels, pass-through
DspFormats ==
    {[InChannels |-> 2, HwChannels |-> 2, Passthrough |-> 1],
     [InChannels |-> 2, HwChannels |-> 2, Passthrough |-> 0],
     [InChannels |-> 1, HwChannels |-> 2, Passthrough |-> 0]}

\* sample blocks of the calls: quiet, loud, silent; the ends of the range
DspBlocks ==
    {<<1000, -2000, 300, -5>>, <<32767, -32768, 7, -7>>, <<0, 0, 0, 0>>,
     <<-3, 4, -1, -2>>}

\* the input of a remix call: samples of both signs, odd sums included
MixerInput(n) == [k \in 1..n |-> IF k % 2 = 1 THEN 1000 * k + 1 ELSE -(3000 * k)]

\* what an alloca'd buffer may hold before it is written
Indeterminate == {0, 12345}

\* the constant sample values of the normalizer runs
NormLevels == {0, 64, 8000}

\* the maxima the settings calls pass
MaxFactors == {0, 500, 2000}

\* no calls from the decoder or the player: the ring stays as it is
NoWork ==
    [alloc |-> 0, enq |-> 0, flush |-> 0, video |-> 0, pause |-> 0, exit |-> 0, fault |-> 0,
     setups |-> {}, frames |-> {}, videos |-> {}]

DspInit ==
    /\ \E f \in DspFormats :
          AudioRing = [i \in Slots |->
              IF i = 0
              THEN [EmptySlot EXCEPT !.Passthrough = f.Passthrough,
                                     !.InChannels = f.InChannels,
                                     !.HwChannels = f.HwChannels,
                                     !.HwSampleRate = 48000,
                                     !.InSampleRate = 48000]
              ELSE EmptySlot]
    /\ AudioRingWrite = 0
    /\ AudioRingRead = 0
    /\ AudioRingFilled = 0
    /\ AudioStartThreshold = StartThresholdFor(48000, 2)
    /\ AudioRunning = 0
    /\ AudioPaused = 0
    /\ AudioVideoIsReady = 0
    /\ AudioSkip = 0
    /\ AudioThreadStop = 0
    /\ hw = [handle |-> TRUE, dead |-> FALSE, passthrough |-> 0, rate |-> 48000,
             channels |-> 2, queued |-> 0]
    /\ cpc = "top"
    /\ flush = 0
    /\ signalled = FALSE
    /\ ppc = "idle"
    /\ parg = NoArg
    /\ pi = 0
    /\ todo = NoWork
    /\ hist = [ret |-> 0, allocs |-> 0, crossed |-> FALSE, flushed |-> -1,
               starter |-> "none", sawPause |-> FALSE, cyclePaused |-> FALSE]
    /\ \E job \in {"mixer", "compressor", "normalizer", "path", "sink", "init"} :
       \E level \in NormLevels :
          /\ job # "normalizer" => level = 0
          /\ job # "path" => AudioRing[0].Passthrough = 0 /\ AudioRing[0].InChannels = 2
          /\ dsp = [DspStart(job, level) EXCEPT !.left =
                       CASE job = "compressor" -> MaxCompressorCalls
                         [] job = "normalizer" -> MaxNormCalls
                         [] job = "path" -> MaxSettings
                         [] OTHER -> 0]
    /\ call = NoCall

\* a run may make a settings call or a reset now
SettingsAllowed ==
    IF dsp.job = "normalizer" THEN dsp.left > MaxNormCalls - MaxNormPrefix
    ELSE dsp.left > 0

Toggle(flag, onoff) == IF onoff < 0 THEN (IF flag = 0 THEN 1 ELSE 0) ELSE onoff

\* AudioResample on a buffer of frames * out_chan samples
DspResample(in_chan, out_chan, frames, junk) ==
    /\ dsp.job = "mixer"
    /\ LET in == MixerInput(frames * in_chan)
           r == AudioResample(in, in_chan, frames,
                              [k \in 1..(frames * out_chan) |-> junk], out_chan)
       IN call' = [op |-> "AudioResample", in_chan |-> in_chan, out_chan |-> out_chan,
                   frames |-> frames, in |-> in, junk |-> junk, out |-> r.out,
                   error |-> r.error, aborted |-> r.aborted]
    /\ UNCHANGED <<mainVars, dsp>>

AudioSetCompression(onoff, maxfac) ==
    /\ dsp.job \in {"compressor", "path"}
    /\ SettingsAllowed
    /\ dsp' = [dsp EXCEPT
                  !.left = @ - 1,
                  !.AudioCompression = Toggle(@, onoff),
                  !.AudioMaxCompression = maxfac,
                  !.AudioCompressionFactor =
                      LET f == IF @ = 0 THEN 1000 ELSE @
                      IN IF f > maxfac THEN maxfac ELSE f]
    /\ UNCHANGED <<mainVars, call>>

AudioSetNormalize(onoff, maxfac) ==
    /\ dsp.job \in {"normalizer", "path"}
    /\ SettingsAllowed
    /\ dsp' = [dsp EXCEPT
                  !.left = @ - 1,
                  !.AudioNormalize = Toggle(@, onoff),
                  !.AudioMaxNormalize = maxfac]
    /\ UNCHANGED <<mainVars, call>>

\* the play thread moves to a slot of the same format: AudioResetCompressor
\* and AudioResetNormalizer
DspReset ==
    /\ dsp.job \in {"compressor", "normalizer"}
    /\ SettingsAllowed
    /\ dsp' = [dsp EXCEPT
                  !.left = @ - 1,
                  !.AudioCompressionFactor = AudioResetCompressor(dsp.AudioMaxCompression),
                  !.norm = AudioResetNormalizer(@),
                  !.resets = 1,
                  !.completed = 0,
                  !.firstCompute = 0]
    /\ UNCHANGED <<mainVars, call>>

DspCompressor(block) ==
    /\ dsp.job = "compressor"
    /\ dsp.left > 0
    /\ LET r == AudioCompressor(block, dsp.AudioCompressionFactor, dsp.AudioMaxCompression)
       IN /\ dsp' = [dsp EXCEPT !.left = @ - 1, !.AudioCompressionFactor = r.factor]
          /\ call' = [op |-> "AudioCompressor", in |-> block, out |-> r.samples,
                      old |-> dsp.AudioCompressionFactor,
                      maxfac |-> dsp.AudioMaxCompression, factor |-> r.factor]
    /\ UNCHANGED mainVars

\* AudioNormalizer on l samples of the run's level
DspNormalizer(l) ==
    /\ dsp.job = "normalizer"
    /\ dsp.left > 0
    /\ l = AudioNormSamples \/ SettingsAllowed
    /\ LET r == AudioNormalizer(dsp.norm, <<(<<dsp.level, l>>)>>, dsp.AudioMaxNormalize)
           completed == dsp.completed + r.st.completed
       IN /\ dsp' = [dsp EXCEPT
                        !.left = @ - 1,
                        !.norm = r.st,
                        !.completed = completed,
                        !.firstCompute =
                            IF @ = 0 /\ r.st.computed > 0
                            THEN completed - r.st.computed + 1 ELSE @]
          /\ call' = [op |-> "AudioNormalizer", samples |-> l,
                      old |-> dsp.norm.Factor, factor |-> r.st.Factor,
                      maxfac |-> dsp.AudioMaxNormalize,
                      completed |-> r.st.completed, computed |-> r.st.computed,
                      in |-> dsp.level, out |-> r.runs[1][1],
                      resets |-> dsp.resets, since |-> completed,
                      first |-> dsp'.firstCompute]
    /\ UNCHANGED mainVars

\* the statics after AudioSetVolume(volume): the loudness of stereo input
\* that is not passed through is reduced by AudioStereoDescent
SetVolume(d, volume) ==
    LET slot == AudioRing[AudioRingRead]
        reduced == volume - d.AudioStereoDescent
        amplifier ==
            IF d.AudioStereoDescent # 0 /\ slot.InChannels = 2 /\ slot.Passthrough = 0
            THEN (IF reduced < 0 THEN 0 ELSE IF reduced > 1000 THEN 1000 ELSE reduced)
            ELSE volume
    IN [d EXCEPT !.AudioVolume = volume,
                 !.AudioMute = IF volume = 0 THEN 1 ELSE 0,
                 !.AudioAmplifier = amplifier]

AudioSetVolume(volume) ==
    /\ dsp.job = "path"
    /\ dsp.left > 0
    /\ dsp' = SetVolume([dsp EXCEPT !.left = @ - 1], volume)
    /\ UNCHANGED <<mainVars, call>>

AudioSetSoftvol(onoff) ==
    /\ dsp.job = "path"
    /\ dsp.left > 0
    /\ dsp' = [dsp EXCEPT !.left = @ - 1, !.AudioSoftVolume = Toggle(@, onoff)]
    /\ UNCHANGED <<mainVars, call>>

AudioSetStereoDescent(delta) ==
    /\ dsp.job = "path"
    /\ dsp.left > 0
    /\ dsp' = SetVolume([dsp EXCEPT !.left = @ - 1, !.AudioStereoDescent = delta],
                         dsp.AudioVolume)
    /\ UNCHANGED <<mainVars, call>>

\* "audio sample modification allowed and needed?"
EnqueueModifies(slot) ==
    slot.Passthrough = 0
        /\ (dsp.AudioCompression # 0 \/ dsp.AudioNormalize # 0
                \/ slot.InChannels # slot.HwChannels)

\* the sample modification of AudioEnqueue: remix into a temporary buffer,
\* then the filters in place; the result is what goes into the ring buffer
DspEnqueue(block, junk) ==
    /\ dsp.job = "path"
    /\ call.op = "none"
    /\ LET slot == AudioRing[AudioRingWrite]
           frames == Len(block) \div slot.InChannels
           mixed == AudioResample(block, slot.InChannels, frames,
                                  [k \in 1..(frames * slot.HwChannels) |-> junk],
                                  slot.HwChannels).out
           c == IF dsp.AudioCompression # 0
                THEN AudioCompressor(mixed, dsp.AudioCompressionFactor,
                                     dsp.AudioMaxCompression)
                ELSE [samples |-> mixed, factor |-> dsp.AudioCompressionFactor]
           n == IF dsp.AudioNormalize # 0
                THEN AudioNormalizer(dsp.norm, RunsOf(c.samples), dsp.AudioMaxNormalize)
                ELSE [st |-> dsp.norm, runs |-> RunsOf(c.samples)]
       IN IF EnqueueModifies(slot)
          THEN /\ dsp' = [dsp EXCEPT !.AudioCompressionFactor = c.factor, !.norm = n.st]
               /\ call' = [op |-> "AudioEnqueue", in |-> block, modified |-> TRUE,
                           queued |-> SamplesOf(n.runs)]
          ELSE /\ call' = [op |-> "AudioEnqueue", in |-> block, modified |-> FALSE,
                           queued |-> block]
               /\ UNCHANGED dsp
    /\ UNCHANGED mainVars

\* what snd_pcm_writei takes of the samples offered on the first pass of
\* AlsaPlayRingbuffer: all of them, or one half ("not all frames written")
PartialWrites == {1, 2}

\* AlsaPlayRingbuffer on the samples AudioEnqueue has queued: each pass of
\* its loop amplifies in place what it offers to snd_pcm_writei
\* (AudioSoftAmplifier), and advances the read pointer by what was taken;
\* the first write takes Len \div part of the samples, the next pass offers
\* the rest, which stayed in the ring buffer as the first pass left it
DspPlay(part) ==
    /\ dsp.job = "path"
    /\ call.op = "AudioEnqueue"
    /\ LET slot == AudioRing[AudioRingRead]
           amplified == dsp.AudioMute # 0
                            \/ (dsp.AudioSoftVolume # 0 /\ slot.Passthrough = 0)
           n == Len(call.queued)
           taken == n \div part
           first == AudioSoftAmplifier(call.queued, dsp.AudioMute, dsp.AudioAmplifier)
           rest == AudioSoftAmplifier(SubSeq(first, taken + 1, n), dsp.AudioMute,
                                      dsp.AudioAmplifier)
       IN call' = [op |-> "AlsaPlayRingbuffer", in |-> call.in,
                   queued |-> call.queued, amplified |-> amplified,
                   mute |-> dsp.AudioMute, softvol |-> dsp.AudioSoftVolume,
                   amplifier |-> dsp.AudioAmplifier, part |-> part,
                   played |-> IF amplified
                              THEN SubSeq(first, 1, taken) \o rest
                              ELSE call.queued]
    /\ UNCHANGED <<mainVars, dsp>>

\* the end of a successful AlsaSetup: AudioStartThreshold from the period
\* size the device reports
DspAlsaSetup(period_size, freq, channels, buffertime, avdelay) ==
    /\ dsp.job = "sink"
    /\ call' = [op |-> "AlsaSetup", period_size |-> period_size, freq |-> freq,
                channels |-> channels, buffertime |-> buffertime,
                avdelay |-> avdelay,
                threshold |-> AlsaStartThreshold(period_size, freq, channels,
                                                 buffertime, avdelay)]
    /\ UNCHANGED <<mainVars, dsp>>

\* the inputs of the sink configuration; the product of rate, channels,
\* sample size and delay stays inside the 32-bit int it is computed in
SinkPeriods == {HwPeriodFrames, 32 * HwPeriodFrames}
SinkRates == {44100, 48000, 192000}
SinkChannels == {1, 2, 6, 8}
SinkBufferTimes == {AudioBufferTime, 500}
SinkAvDelays == {-9000, 0, 9000}

\* the devices AudioInit is run on: any set of channel counts at 44100 Hz;
\* at 48000 Hz the same set, the same set without stereo, or none; at
\* 192000 Hz the same set or none
ProbeDevices ==
    UNION {{<<a, a, a>>, <<a, a, {}>>, <<a, a \ {2}, {}>>, <<a, {}, {}>>} :
               a \in SUBSET (1..8)}

\* AudioInit on the device dev: the probes and the tables built from them
AudioInit(dev) ==
    /\ dsp.job = "init"
    /\ call.op = "none"
    /\ call' = [op |-> "AudioInit", dev |-> dev,
                AudioChannelsInHw |-> [chan \in 1..8 |-> ChannelsInHwOf(dev, chan)],
                AudioRatesInHw |-> [u \in 1..AudioRatesMax |-> RatesInHwOf(dev, u)],
                AudioChannelMatrix |->
                    [u \in 1..AudioRatesMax |->
                        [chan \in 1..8 |-> ChannelMatrixOf(dev, u, chan)]]]
    /\ UNCHANGED <<mainVars, dsp>>

DspNext ==
    \/ \E i \in 1..8, o \in 1..8, frames \in 1..MaxFrames, junk \in Indeterminate :
          DspResample(i, o, frames, junk)
    \/ \E onoff \in {-1, 1}, maxfac \in MaxFactors : AudioSetCompression(onoff, maxfac)
    \/ \E onoff \in {-1, 1}, maxfac \in MaxFactors : AudioSetNormalize(onoff, maxfac)
    \/ DspReset
    \/ \E block \in DspBlocks : DspCompressor(block)
    \/ \E l \in {AudioNormSamples, AudioNormSamples \div 2} : DspNormalizer(l)
    \/ \E volume \in {0, 500, 1000} : AudioSetVolume(volume)
    \/ AudioSetSoftvol(1)
    \/ AudioSetStereoDescent(100)
    \/ \E block \in DspBlocks, junk \in Indeterminate : DspEnqueue(block, junk)
    \/ \E part \in PartialWrites : DspPlay(part)
    \/ \E p \in SinkPeriods, f \in SinkRates, c \in SinkChannels,
          b \in SinkBufferTimes, d \in SinkAvDelays : DspAlsaSetup(p, f, c, b, d)
    \/ \E dev \in ProbeDevices : AudioInit(dev)

DspSpec == DspInit /\ [][DspNext]_vars

\* ------------------------------------------------------------------------
\* Properties
\* ------------------------------------------------------------------------
\* the play thread is inside its inner loop with bytes of the read slot
\* still to play
Draining == cpc \in {"loop", "play"} /\ Used(AudioRingRead) > 0

\* C1: no allocation (AudioRingAdd, AudioFlushBuffers) moves the write index
\* onto the read index while the play thread is draining that slot
C1_NeverTakesDrainedSlot ==
    [][AudioRingWrite' # AudioRingWrite
           => ~(Draining /\ AudioRingWrite' = AudioRingRead)]_vars

\* C2: the counter of filled slots stays within 0 .. AUDIO_RING_MAX in
\* every reachable state
C2_FilledInRange == AudioRingFilled >= 0 /\ AudioRingFilled <= AUDIO_RING_MAX

\* the counter stands at AUDIO_RING_MAX while the play thread, past its
\* scan, is about to take a slot off
C2_Witness == AudioRingFilled = AUDIO_RING_MAX /\ cpc = "play"

\* the result of an AudioSetup(a) step for a format the matrix accepts or
\* not: accepted, it fails exactly when the counter reads AUDIO_RING_MAX;
\* failing, it changes nothing of the ring and wakes nobody
SetupOutcome(a) ==
    LET accepted == a.rate # 0 /\ a.channels # 0 /\ RingAddAccepts(a.rate, a.channels)
        failed == ppc' = "idle"
    IN /\ accepted => (failed <=> AudioRingFilled = AUDIO_RING_MAX)
       /\ ~accepted => failed
       /\ failed => /\ hist'.ret = -1
                    /\ UNCHANGED <<ringVars, AudioStartThreshold, flagVars, hw,
                                   consVars, signalled>>
       /\ ~failed => ppc' = "ringadd_inc" /\ hist'.allocs = hist.allocs + 1

\* C3: an accepted format fails as full exactly when filled = AUDIO_RING_MAX
\* at the call; a failing call leaves indexes, counter and slots alone and
\* does not signal
C3_AddFormatFailure ==
    [][\A a \in todo.setups : AudioSetup(a) => SetupOutcome(a)]_vars

\* AudioSetup of an accepted format has just failed on the full ring
C3_Witness ==
    /\ hist.ret = -1
    /\ ppc = "idle"
    /\ AudioRingFilled = AUDIO_RING_MAX
    /\ hist.allocs = AUDIO_RING_MAX
    /\ todo.alloc = 0
    /\ todo.setups = RingWork.setups

\* C4: whenever the play thread is blocked in its wait with AudioRunning
\* set by a start (no stop requested), a signal is on its way to it: no
\* wake-up is lost
C4_NoLostWakeup ==
    (cpc = "waiting" /\ AudioRunning = 1 /\ AudioThreadStop = 0) => signalled

\* the history tags of the bytes a ThreadPlay step hands to the device:
\* 0 enqueued after every returned flush, 1 enqueued before a flush call
\* that gave up (no room, or its wait ran out), 2 enqueued before a flush
\* call that allocated its slot and left its wait on filled = 0
WrittenAges ==
    IF cpc = "play" /\ Used(AudioRingRead) # 0
    THEN FrontAges(AudioRing[AudioRingRead].RingBuffer, AlsaThreadBytes)
    ELSE {}

\* C5 as stated: after any AudioFlushBuffers call has returned, the play
\* thread writes no byte enqueued before that call
C5_NoByteFromBeforeAnyFlush ==
    [][ThreadPlay => WrittenAges \subseteq {0}]_vars

\* C5: after an AudioFlushBuffers call that allocated its slot and left its
\* wait because filled read 0, the play thread writes no byte enqueued
\* before that call
C5_NoByteFromBeforeDoneFlush ==
    [][ThreadPlay => 2 \notin WrittenAges]_vars

\* a flush has left bytes from before it behind in an older slot, and the
\* play thread, on the write slot, is handing later bytes to the device
C5_Witness ==
    /\ \E i \in Slots : 2 \in FrontAges(AudioRing[i].RingBuffer, Used(i))
    /\ AudioRingRead = AudioRingWrite
    /\ cpc = "loop"
    /\ hw.queued > 0
    /\ Used(AudioRingRead) > 0
    /\ FrontAges(AudioRing[AudioRingRead].RingBuffer, Used(AudioRingRead)) = {0}

\* C6: once a flush call that allocated its slot has returned and the play
\* thread is blocked in its wait with no signal on its way, the flush has
\* been handled: the slot's flag is cleared, the read index is the write
\* index and nothing is queued
C6_FlushHandled ==
    (ppc = "idle" /\ hist.flushed # -1 /\ AudioRingWrite = hist.flushed
        /\ cpc = "waiting" /\ ~signalled)
    => /\ AudioRing[hist.flushed].FlushBuffers = 0
       /\ AudioRingRead = AudioRingWrite
       /\ AudioRingFilled = 0

\* C7: while AudioExitThread waits in pthread_join, the play thread has
\* returned or still has a step to take: it is never blocked in its wait
\* with no signal on its way
C7_StopTerminates ==
    ppc = "join" => (cpc = "done" \/ ENABLED Thread)

\* C8: AudioPlay after AudioPause wakes a play thread that stopped writing
\* for the pause (the device still holds what it wrote) and is blocked in
\* its wait with bytes of the read slot still to play
C8_ResumeWakes ==
    [][(AudioPlay /\ cpc = "waiting" /\ ~signalled /\ hw.queued > 0
            /\ Used(AudioRingRead) > 0)
           => (signalled' /\ AudioRunning' = 1)]_vars

\* a step in which AudioEnqueue appends samples to the write slot
EnqueueAppends ==
    /\ AudioEnqueue \/ \E f \in todo.frames : AudioEnqueueCall(f)
    /\ AudioRingWrite' = AudioRingWrite
    /\ AudioRing' # AudioRing

\* the occupancy of the write slot after the step
UsedAfter == RingBufferUsedBytes(AudioRing'[AudioRingWrite].RingBuffer)

\* the step sets AudioRunning and signals the play thread
StartsPlayback == AudioRunning' = 1 /\ (cpc = "waiting" => signalled')

C10_ClockUnknownBeforeStart ==
    /\ (hist.allocs = 1 /\ AudioRing[1].InSampleRate # 0 /\ ~hist.crossed
           /\ hist.starter = "none")
       => AudioGetClock = NoPTS
    /\ AudioRunning = 1 => AudioGetDelay >= 0

\* the four conditions under which the clock is said to be known
ClockKnownCase ==
    /\ AudioRunning = 1
    /\ AudioRing[AudioRingRead].HwSampleRate # 0
    /\ AudioRingFilled = 0
    /\ AudioRing[AudioRingRead].PTS # NoPTS

\* the read slot's pts less the delay of the device and of the bytes
\* buffered in the read slot, both in time stamps
ClockOfReadSlot ==
    LET s == AudioRing[AudioRingRead] IN
    s.PTS - (MulDiv(hw.queued \div (hw.channels * AudioBytesProSample), 90 * 1000,
                    s.HwSampleRate)
             + MulDiv(Used(AudioRingRead), 90 * 1000,
                      s.HwSampleRate * s.HwChannels * AudioBytesProSample))

\* C11: AudioGetClock is the read slot's pts less the device and buffer
\* delay exactly when playback is running, the read slot is configured,
\* filled = 0 and the slot's pts is known; otherwise it is unknown
C11_ClockExactlyWhenKnown ==
    AudioGetClock = IF ClockKnownCase THEN ClockOfReadSlot ELSE NoPTS

\* C12: once the play thread has seen AudioPaused set, and as long as it
\* stays set, no step of the thread changes the read index or the counter
\* of filled slots
C12_PausedKeepsPosition ==
    [][(Thread /\ hist.sawPause /\ AudioPaused = 1)
           => UNCHANGED <<AudioRingRead, AudioRingFilled>>]_vars

\* a step writes no byte to the device and takes none out of a slot's buffer
NothingPlayed ==
    /\ hw'.queued <= hw.queued
    /\ \A i \in Slots : AudioRing'[i].RingBuffer = AudioRing[i].RingBuffer

FlushCallActive == ppc \in {"flush", "flush_inc", "flush_wait"}

\* C14: an AudioFlushBuffers call under way has slept at most 48 times in
\* the loop it is in and always has a next step of its own, whatever the
\* play thread does; each polling step returns, goes on, or sleeps once
\* more; the wait for the flush returns before its 48 sleeps are used up
\* only on reading filled = 0
C14_FlushBounded ==
    /\ [](FlushCallActive
             => /\ pi <= 48
                /\ ENABLED (AudioFlushBuffersSpin \/ AudioFlushBuffersInc
                               \/ AudioFlushBuffersWait))
    /\ [][/\ (AudioFlushBuffers \/ AudioFlushBuffersSpin \/ AudioFlushBuffersWait)
                 => (ppc' # ppc \/ pi' = pi + 1)
          /\ (AudioFlushBuffersWait /\ ppc' = "idle" /\ pi < 48)
                 => AudioRingFilled = 0]_vars

\* the wait for the flush has used up its 48 sleeps without the play thread
\* taking the slots off: the call is about to return on the timeout
C14_Witness == ppc = "flush_wait" /\ pi = 48 /\ AudioRingFilled # 0

\* the fields of a slot other than the history tags of its buffered bytes
SlotContents(s) ==
    [s EXCEPT !.RingBuffer = RingBufferUsedBytes(@)]

\* C15: a step of AudioFlushBuffers that reads filled = AUDIO_RING_MAX in its
\* wait for room, the last one giving up included, allocates nothing: write
\* index, counter, every slot's flag, format, pts and buffered bytes, the
\* video-ready flag and AudioSkip stay as they are and nobody is signalled
C15_FullFlushChangesNothing ==
    [][((AudioFlushBuffers \/ AudioFlushBuffersSpin)
            /\ AudioRingFilled = AUDIO_RING_MAX)
           => /\ ppc' \in {"flush", "idle"}
              /\ (ppc' = "idle" <=> pi = FlushPolls)
              /\ \A i \in Slots : SlotContents(AudioRing'[i]) = SlotContents(AudioRing[i])
              /\ UNCHANGED <<AudioRingWrite, AudioRingRead, AudioRingFilled,
                             AudioVideoIsReady, AudioSkip, AudioRunning, signalled,
                             hw, consVars>>]_vars

\* the flush of the long-ring workload has given up on the full ring: no
\* slot was ever allocated for a flush
C15_Witness ==
    /\ todo.setups = RingWork.setups
    /\ todo.flush = 0
    /\ hist.flushed = -1
    /\ ppc = "idle"
    /\ pi = 0
    /\ AudioRingFilled = AUDIO_RING_MAX

\* the steps of an AudioFlushBuffers call that found room, except the wake:
\* the allocation moves the write index on by one, gives the new slot the
\* format of the previous write slot, the flush flag, an empty buffer and an
\* unknown pts, clears the video-ready flag and AudioSkip and leaves the
\* counter, the other slots and the thread alone; the increment, a later
\* step, adds one to the counter and touches no slot
FlushAllocationSteps ==
    /\ ((AudioFlushBuffers \/ AudioFlushBuffersSpin) /\ AudioRingFilled < AUDIO_RING_MAX)
          => LET w == (AudioRingWrite + 1) % AUDIO_RING_MAX
                 old == AudioRing[AudioRingWrite]
                 new == AudioRing'[w]
             IN /\ AudioRingWrite' = w
                /\ new.Passthrough = old.Passthrough
                /\ new.HwSampleRate = old.HwSampleRate
                /\ new.HwChannels = old.HwChannels
                /\ new.InSampleRate = old.InSampleRate
                /\ new.InChannels = old.InChannels
                /\ new.FlushBuffers = 1
                /\ new.RingBuffer = <<>>
                /\ new.PTS = NoPTS
                /\ \A i \in Slots \ {w} : AudioRing'[i] = AudioRing[i]
                /\ AudioVideoIsReady' = 0
                /\ AudioSkip' = 0
                /\ ppc' = "flush_inc"
                /\ UNCHANGED <<AudioRingFilled, AudioRingRead, AudioRunning, signalled>>
    /\ AudioFlushBuffersInc
          => /\ AudioRingFilled' = AudioRingFilled + 1
             /\ ppc' = "flush_wait"
             /\ UNCHANGED <<AudioRing, AudioRingWrite, AudioRingRead, AudioVideoIsReady,
                            AudioSkip, AudioRunning, signalled>>

\* the first round of the wait, right after the increment
FlushFirstRound == AudioFlushBuffersWait /\ pi = 0

SetupAllocates(a) ==
    LET w == (AudioRingWrite + 1) % AUDIO_RING_MAX
        new == AudioRing'[w]
    IN /\ AudioRingWrite' = w
       /\ new.RingBuffer = <<>>
       /\ new.FlushBuffers = 0
       /\ new.PacketSize = 0
       /\ new.Passthrough = a.passthrough
       /\ new.InSampleRate = a.rate
       /\ new.InChannels = a.channels
       /\ new.HwSampleRate = a.rate
       /\ new.HwChannels = AudioChannelMatrix(RateIndex(a.rate), a.channels)
       /\ new.HwChannels # 0
       /\ new.PTS = NoPTS
       /\ \A i \in Slots \ {w} : AudioRing'[i] = AudioRing[i]
       /\ UNCHANGED <<AudioRingRead, AudioRingFilled>>

\* C17: a successful AudioSetup writes the new write slot as above, and the
\* increment, a later step, adds exactly one to the counter and changes no
\* slot and no index
C17_AddFormatSuccess ==
    [][/\ \A a \in todo.setups :
              (AudioSetup(a) /\ ppc' = "ringadd_inc") => SetupAllocates(a)
       /\ AudioRingAddInc
             => /\ AudioRingFilled' = AudioRingFilled + 1
                /\ UNCHANGED <<AudioRing, AudioRingWrite, AudioRingRead>>]_vars

\* AudioSetup has taken a slot of the ring for the second time and has
\* published it: it is empty, its pts unknown
C17_Witness ==
    /\ ppc = "ringadd_wake"
    /\ ~parg.frame
    /\ hist.allocs > AUDIO_RING_MAX
    /\ AudioRing[AudioRingWrite].PTS = NoPTS
    /\ AudioRing[AudioRingWrite].RingBuffer = <<>>
    /\ AudioRing[AudioRingWrite].HwSampleRate = 48000
    /\ AudioRingFilled > 0

\* |a - b|
Distance(a, b) == IF a < b THEN b - a ELSE a - b

\* the table index of the rate nearest to `rate` among the rates the
\* hardware supports
NearestRateIndex(rate) ==
    CHOOSE u \in 1..AudioRatesMax :
        /\ AudioRatesInHw(u)
        /\ \A v \in 1..AudioRatesMax :
               AudioRatesInHw(v)
                   => Distance(AudioRatesTable[u], rate) <= Distance(AudioRatesTable[v], rate)

\* an AudioSetup(a) step with non-zero parameters on a ring with a free slot
SetupOfFormat(a) ==
    AudioSetup(a) /\ a.rate # 0 /\ a.channels # 0 /\ AudioRingFilled # AUDIO_RING_MAX

\* the step returns -1 without allocating
SetupRefused == ppc' = "idle" /\ hist'.ret = -1 /\ UNCHANGED <<AudioRing, AudioRingWrite>>

\* C18 as stated: the requested rate is mapped to the nearest supported
\* rate, and AudioSetup fails as unsupported exactly when the matrix has no
\* entry for the channel count at that rate
C18_NearestRateDecides ==
    [][\A a \in todo.setups :
           SetupOfFormat(a)
               => (SetupRefused
                      <=> AudioChannelMatrix(NearestRateIndex(a.rate), a.channels) = 0)]_vars

\* C18: AudioSetup fails as unsupported exactly when the requested rate is
\* not one of the table rates or the matrix has no entry for the channel
\* count at that rate; an accepted rate is stored as it was requested
C18_TableRateDecides ==
    [][\A a \in todo.setups :
           SetupOfFormat(a)
               => /\ SetupRefused
                      <=> \A u \in 1..AudioRatesMax :
                              AudioRatesTable[u] = a.rate
                                  => AudioChannelMatrix(u, a.channels) = 0
                  /\ ~SetupRefused
                      => AudioRing'[AudioRingWrite'].HwSampleRate = a.rate]_vars

\* the first AudioSetup of the long-ring workload, with non-zero parameters
\* or not, was refused on the empty ring
C18_Witness ==
    /\ todo.setups = RingWork.setups
    /\ todo.alloc = MaxAllocs - 1
    /\ hist.ret = -1
    /\ hist.allocs = 0
    /\ ppc = "idle"
    /\ AudioRingFilled = 0

\* an AudioVideoReady(pts) step with a valid video pts, a configured write
\* slot with a known pts, and playback not started
VideoReadyBeforeStart(pts) ==
    /\ AudioVideoReady(pts)
    /\ pts # NoPTS
    /\ AudioRing[AudioRingWrite].HwSampleRate # 0
    /\ AudioRing[AudioRingWrite].HwChannels # 0
    /\ AudioRing[AudioRingWrite].PTS # NoPTS
    /\ AudioRunning = 0

\* what the step is to leave for a video pts `pts`: with
\* skip = pts - 15 video frames - buffer time - audio clock + a/v delay,
\* and 0 < skip < 2 s, min(skipBytes, used) bytes less in the write slot
\* and a skip debt of skipBytes - min(skipBytes, used); else both as before
SkipOutcome(pts) ==
    LET s == AudioRing[AudioRingWrite]
        frame == s.HwChannels * AudioBytesProSample
        used == Used(AudioRingWrite)
        audioClock == s.PTS - MulDiv(used, 90 * 1000, s.HwSampleRate * frame)
        skip == pts - 15 * 20 * 90 - AudioBufferTime * 90 - audioClock + VideoAudioDelay
        skipBytes == MulDiv(skip, s.HwSampleRate, 1000 * 90) * frame
        dropped == Min(skipBytes, used)
        usedAfter == RingBufferUsedBytes(AudioRing'[AudioRingWrite].RingBuffer)
    IN IF skip > 0 /\ skip < 2000 * 90
       THEN usedAfter = used - dropped /\ AudioSkip' = skipBytes - dropped
       ELSE usedAfter = used /\ AudioSkip' = AudioSkip

\* C19: AudioVideoReady before the start drops min(skipBytes, used) bytes
\* from the front of the write slot and leaves skipBytes - min(skipBytes,
\* used) as AudioSkip when 0 < skip < 2 s, and leaves both alone otherwise
C19_VideoReadySkip ==
    [][\A pts \in todo.videos : VideoReadyBeforeStart(pts) => SkipOutcome(pts)]_vars

\* an enqueue of `count` bytes into the write slot with no processing stage
\* in its way: the slot is configured and needs no remix, no skip is taken
\* off, and the bytes fit
PlainEnqueue(count) ==
    LET s == AudioRing[AudioRingWrite] IN
    /\ count > 0
    /\ s.HwSampleRate # 0
    /\ s.InChannels = s.HwChannels
    /\ AudioSkip = 0 \/ AudioRunning # 0
    /\ count <= RingBufferFreeBytes(s.RingBuffer)

\* the write slot's buffer after the step is the buffer before it with
\* exactly `count` new bytes behind the bytes it held
Appended(count) ==
    LET b == AudioRing[AudioRingWrite].RingBuffer
        b2 == AudioRing'[AudioRingWrite].RingBuffer
    IN \/ b2 = Append(b, <<count, 0>>)
       \/ /\ b # <<>>
          /\ b[Len(b)][2] = 0
          /\ b2 = [b EXCEPT ![Len(b)] = <<b[Len(b)][1] + count, 0>>]

\* what the device received in the step is exactly what left the front of
\* the read slot's buffer
HandedOver ==
    LET b == AudioRing[AudioRingRead].RingBuffer
        b2 == AudioRing'[AudioRingRead].RingBuffer
        n == hw'.queued - hw.queued
    IN /\ n >= 0
       /\ b2 = RingBufferReadAdvance(b, n)
       /\ RingBufferUsedBytes(b2) = RingBufferUsedBytes(b) - n

\* the step is a skip, or takes a slot for a new format or a flush, or is
\* the return of a flush call
SkipOrAllocation ==
    \/ \E pts \in todo.videos : AudioVideoReady(pts)
    \/ AudioRingWrite' # AudioRingWrite
    \/ AudioSkip' # AudioSkip
    \/ AudioFlushBuffersSpin \/ AudioFlushBuffersWait

PassthroughPlayed ==
    call.op = "AlsaPlayRingbuffer" /\ AudioRing[AudioRingRead].Passthrough # 0

\* C21: the bytes enqueued into a pass-through slot reach the device as they
\* were enqueued, whatever the volume, mute, software volume, compression
\* and normalization settings are
C21_PassthroughUnmodified ==
    PassthroughPlayed => call.queued = call.in /\ call.played = call.in

\* C22: the stereo to mono remix of F frames gives F samples, sample k being
\* the truncated mean (in[2k] + in[2k+1]) / 2, for every k in 0 .. F - 1
C22_Stereo2MonoMeans ==
    (call.op = "AudioResample" /\ call.in_chan = 2 /\ call.out_chan = 1) =>
        /\ Len(call.out) = call.frames
        /\ \A k \in 0..(call.frames - 1) :
              call.out[k + 1] = CDiv(call.in[2 * k + 1] + call.in[2 * k + 2], 2)

\* the channel pairs AudioResample has a transform for
DefinedPairs ==
    {<<c, c>> : c \in 1..8} \cup {<<2, 1>>, <<1, 2>>}
        \cup {<<c, 2>> : c \in 3..8} \cup UpmixPairs

\* C23: for every pair of channel counts in 1..8 x 1..8 AudioResample
\* returns normally (abort() of the surround down-mix is not reached); a
\* pair without a transform gives frames x out-channels zero samples and an
\* error report, and only such a pair is reported
C23_ResampleNeverAborts ==
    call.op = "AudioResample" =>
        /\ ~call.aborted
        /\ Len(call.out) = call.frames * call.out_chan
        /\ call.error <=> <<call.in_chan, call.out_chan>> \notin DefinedPairs
        /\ call.error => call.out = Zeros(call.frames * call.out_chan)

\* a pair without a transform (7 -> 3) has been remixed into a buffer that
\* held other values: the call returned, reported, and left silence
C23_Witness ==
    /\ call.op = "AudioResample"
    /\ call.in_chan = 7 /\ call.out_chan = 3
    /\ call.frames = MaxFrames
    /\ call.junk # 0
    /\ call.error /\ ~call.aborted
    /\ call.out = Zeros(MaxFrames * 3)

\* the loudest sample of the block the compressor was called with
CallPeak == MaxSample(call.in, Len(call.in))

\* C24: after AudioCompressor on a block with peak p > 0 the factor is
\* min((old * 950 + inst * 50) / 1000, inst, maximum) with
\* inst = 32767 * 1000 / p, so that no scaled sample leaves the sample range
\* and the block is stored without clipping; and whatever settings calls,
\* resets and blocks came before, the factor does not exceed the maximum
C24_CompressorFactor ==
    /\ dsp.AudioCompressionFactor <= dsp.AudioMaxCompression
    /\ (call.op = "AudioCompressor" /\ CallPeak > 0) =>
          LET inst == (32767 * 1000) \div CallPeak
              smooth == CDiv(call.old * 950 + inst * 50, 1000)
          IN /\ call.factor = Min(Min(smooth, inst), call.maxfac)
             /\ \A k \in DOMAIN call.in :
                   /\ (Abs(call.in[k]) * call.factor) \div 1000 <= 32767
                   /\ call.out[k] = CDiv(call.in[k] * call.factor, 1000)

\* a block with a full-scale sample after a reset to 2000: the smoothed
\* factor 1950 is cut to the instantaneous 1000
C24_Witness ==
    /\ call.op = "AudioCompressor"
    /\ CallPeak >= 32767
    /\ call.old = 2000 /\ call.maxfac = 2000
    /\ call.factor < 1000 + 1
    /\ dsp.AudioCompressionFactor = call.factor

\* C25: whatever AudioSetNormalize calls, resets and blocks came before, the
\* factor the normalizer applies to a block lies between the minimum (100)
\* and the configured maximum (stated for the runs with a reset and with a
\* maximum that is not below the minimum)
C25_NormalizeFactorInRange ==
    (call.op = "AudioNormalizer" /\ call.resets > 0
            /\ call.maxfac >= AudioMinNormalize) =>
        /\ call.factor >= AudioMinNormalize
        /\ call.factor <= call.maxfac

\* C26: when only all-zero blocks are fed after a reset, however many, the
\* factor stays at the minimum (100)
C26_SilenceKeepsMinimum ==
    (call.op = "AudioNormalizer" /\ call.in = 0 /\ call.resets > 0) =>
        call.factor = AudioMinNormalize

\* C27: after a reset the factor is first recomputed from the history when
\* exactly 128 blocks of 4096 samples have been completed; until then it
\* keeps its reset value; from then on every completed block recomputes it.
\* (call.since: blocks completed since the reset, this call included;
\* call.first: the count at which the recomputation first ran, 0 before)
C27_FirstRecomputeAt128 ==
    (call.op = "AudioNormalizer" /\ call.resets > 0) =>
        /\ call.since < AudioNormMaxIndex => call.first = 0 /\ call.factor = 1000
        /\ call.since >= AudioNormMaxIndex => call.first = AudioNormMaxIndex
        /\ (call.since > AudioNormMaxIndex /\ call.completed > 0) => call.computed > 0

\* the bytes of the period the device reported, and the bytes of `ms`
\* milliseconds of the configured format
CallPeriodBytes == call.period_size * call.channels * AudioBytesProSample
CallBytesOfMs(ms) == (call.freq * call.channels * AudioBytesProSample * ms) \div 1000

\* C28 as stated: after a successful sink configuration the start threshold
\* is min(max(period bytes, rate x channels x bytes per sample x buffer time
\* / 1000), slot capacity / 3)
C28_ThresholdFromBufferTime ==
    call.op = "AlsaSetup" =>
        call.threshold = Min(Max(CallPeriodBytes, CallBytesOfMs(call.buffertime)),
                             AudioRingBufferSize \div 3)

\* C28: after a successful sink configuration the start threshold is
\* min(max(period bytes, rate x channels x bytes per sample x delay / 1000),
\* slot capacity / 3), where delay is the buffer time plus, when the
\* audio/video delay is positive, that delay in milliseconds (ticks / 90);
\* it never exceeds a third of the slot capacity
C28_ThresholdFromDelay ==
    call.op = "AlsaSetup" =>
        LET delay == call.buffertime
                         + (IF call.avdelay > 0 THEN call.avdelay \div 90 ELSE 0)
        IN /\ call.threshold = Min(Max(CallPeriodBytes, CallBytesOfMs(delay)),
                                   AudioRingBufferSize \div 3)
           /\ 3 * call.threshold <= AudioRingBufferSize

\* 48 kHz stereo with a positive audio/video delay of 100 ms: the threshold
\* is the bytes of 436 ms, above the period and below the cap
C28_Witness ==
    /\ call.op = "AlsaSetup"
    /\ call.freq = 48000 /\ call.channels = 2
    /\ call.buffertime = AudioBufferTime /\ call.avdelay = 9000
    /\ call.period_size = HwPeriodFrames
    /\ call.threshold = 83712
    /\ call.threshold > CallPeriodBytes
    /\ 3 * call.threshold < AudioRingBufferSize

\* ------------------------------------------------------------------------
\* Properties of the ring (Spec), continued
\* ------------------------------------------------------------------------
\* the play thread leaves the read slot: the step after atomic_dec that
\* moves AudioRingRead, outside the scan for flush commands
AdvanceStep == cpc = "adv" /\ AudioRingRead' # AudioRingRead

\* C29: outside flush handling the play thread moves the read index by one
\* slot per step and takes one off filled, only when filled > 0 and the
\* buffer of the read slot is empty at the moment of the advance, so that no
\* bytes enqueued into the slot it leaves are skipped
C29_AdvanceLeavesEmptySlot ==
    [][/\ (cpc = "play" /\ cpc' = "adv") =>
              /\ AudioRingFilled > 0
              /\ AudioRingFilled' = AudioRingFilled - 1
              /\ Used(AudioRingRead) = 0
       /\ (AudioRingRead' # AudioRingRead /\ cpc # "loop") =>
              /\ cpc = "adv"
              /\ AudioRingRead' = (AudioRingRead + 1) % AUDIO_RING_MAX
              /\ Used(AudioRingRead) = 0]_vars

\* neither an allocation of the producer context is under way (AudioRingAdd,
\* AudioFlushBuffers between the move of the write index and atomic_inc)
\* nor an advance or a flush handling of the play thread
IndicesSettled ==
    /\ ppc \notin {"ringadd_inc", "flush_inc"}
    /\ cpc \notin {"adv", "flushing"}

\* C30: whenever no allocation, advance or flush handling is under way, the
\* write index is (read index + filled) mod AUDIO_RING_MAX; a flush handling
\* that has moved the read index forward by k slots takes exactly k off
\* filled
C30_IndexAccounting ==
    /\ [](IndicesSettled =>
             AudioRingWrite = (AudioRingRead + AudioRingFilled) % AUDIO_RING_MAX)
    /\ [][cpc = "loop" /\ cpc' = "flushing" =>
              /\ flush' \in 1..AudioRingFilled
              /\ AudioRingRead' = (AudioRingRead + flush') % AUDIO_RING_MAX
              /\ AudioRingFilled' = AudioRingFilled]_vars
    /\ [][(cpc = "flushing" /\ cpc' # "flushing") =>
              /\ AudioRingFilled' = AudioRingFilled - flush
              /\ AudioRingRead' = AudioRingRead]_vars

\* a flush handling has moved the read index over two or more slots onto
\* the flush slot and taken them off filled, and a slot allocated since is
\* queued behind it
C30_Witness ==
    /\ IndicesSettled
    /\ cpc = "play"
    /\ hist.flushed = AudioRingRead
    /\ AudioRingRead >= 2
    /\ AudioRingFilled >= 1
    /\ AudioRingWrite = (AudioRingRead + AudioRingFilled) % AUDIO_RING_MAX

\* the play thread is inside its inner loop, from the stop check at its
\* start to the tests at its end
InDrainLoop == cpc \in {"loop", "flushing", "play", "adv"}

\* the step takes buffered bytes out of the write slot for the producer
\* context: the skip of AudioVideoReady, the skip debt in AudioEnqueue
ProducerRemoves ==
    \/ /\ \E pts \in todo.videos : AudioVideoReady(pts)
       /\ RingBufferUsedBytes(AudioRing'[AudioRingWrite].RingBuffer)
              < Used(AudioRingWrite)
    \/ /\ AudioEnqueue \/ \E f \in todo.frames : AudioEnqueueCall(f)
       /\ AudioSkip' # AudioSkip

\* C31: with one producer context, AudioRunning is set whenever the play
\* thread is inside its inner loop, and the producer context takes bytes out
\* of a buffer (skip of AudioVideoReady, skip debt in AudioEnqueue) only
\* while AudioRunning is clear, that is, never while the play thread is in
\* the loop in which it reads and advances buffers
C31_RemovalsOutsideDrainLoop ==
    /\ [](InDrainLoop => AudioRunning = 1)
    /\ [][ProducerRemoves => (AudioRunning = 0 /\ ~InDrainLoop)]_vars

\* a skip debt is outstanding and the play thread is in its loop: an
\* AudioEnqueue has put its bytes into the write slot and left them there
C31_Witness ==
    /\ AudioSkip > 0
    /\ InDrainLoop
    /\ AudioRunning = 1
    /\ Used(AudioRingWrite) > 0
    /\ ppc = "idle"

\* the step is the scan of the play thread finding a flush command
FlushFound == cpc = "loop" /\ cpc' = "flushing"

\* the slot at offset k after the read index
SlotAfterRead(k) == (AudioRingRead + k) % AUDIO_RING_MAX

\* C32 as stated: with flush flags on pending slots, one cycle of the play
\* thread moves the read index to the earliest flagged slot after the read
\* slot, clears that slot's flag (and no other), and takes the slots skipped
\* to reach it off filled
C32_ScanStopsAtEarliestFlag ==
    [][FlushFound =>
          LET k == CHOOSE j \in FlushOffsets : \A i \in FlushOffsets : j <= i
          IN /\ AudioRingRead' = SlotAfterRead(k)
             /\ flush' = k
             /\ \A i \in Slots : AudioRing'[i].FlushBuffers # AudioRing[i].FlushBuffers
                                     => i = SlotAfterRead(k)]_vars

\* C32: with flush flags on pending slots (the slots at offsets 1 .. filled
\* after the read slot), one cycle of the play thread clears every one of
\* these flags, moves the read index to the last flagged slot and takes the
\* slots up to and including it off filled; flags beyond filled are left
C32_ScanHandlesAllFlags ==
    /\ [][FlushFound =>
             LET k == CHOOSE j \in FlushOffsets : \A i \in FlushOffsets : i <= j
             IN /\ AudioRingRead' = SlotAfterRead(k)
                /\ flush' = k
                /\ \A i \in 1..AudioRingFilled :
                       AudioRing'[SlotAfterRead(i)].FlushBuffers = 0
                /\ \A i \in Slots :
                       AudioRing'[i].FlushBuffers # AudioRing[i].FlushBuffers
                           => \E j \in FlushOffsets : i = SlotAfterRead(j)]_vars
    /\ [][(cpc = "flushing" /\ cpc' # "flushing") =>
             AudioRingFilled' = AudioRingFilled - flush]_vars
    /\ [][(cpc = "loop" /\ FlushOffsets # {} /\ AudioThreadStop = 0 /\ cpc' # "loop")
             => FlushFound]_vars

\* two flush calls and no other allocation: the flush slots 1 and 2 were
\* both queued, and one scan from slot 0 has cleared both flags and put the
\* read index on the second
C32_Witness ==
    /\ cpc = "flushing"
    /\ flush = 2
    /\ todo.frames = QueueWork.frames /\ todo.videos = {}
    /\ todo.flush = 0
    /\ hist.allocs = 2
    /\ AudioRingRead = 2
    /\ hist.flushed = AudioRingRead
    /\ \A i \in Slots : AudioRing[i].FlushBuffers = 0

\* ------------------------------------------------------------------------
\* the configuration of the device and the slot being played
\* ------------------------------------------------------------------------

\* the device is configured for the format of the slot the play thread is on
SinkMatches ==
    /\ hw.rate = AudioRing[AudioRingRead].HwSampleRate
    /\ hw.channels = AudioRing[AudioRingRead].HwChannels
    /\ hw.passthrough = AudioRing[AudioRingRead].Passthrough

\* a step of the play thread that hands bytes of the read slot to the device
WritesToSink == ThreadPlay /\ hw'.queued > hw.queued

\* C33: whenever the play thread writes bytes of the read slot to the
\* device, the configuration the device got last (rate, channels,
\* pass-through) is the format of the read slot.
C33_SinkConfiguredForReadSlot == [][WritesToSink => SinkMatches]_vars

\* ------------------------------------------------------------------------
\* a device that fails
\* ------------------------------------------------------------------------

\* AlsaSetup for the format of slot s fails
SetupFails(s) == AlsaSetup(s.HwSampleRate, s.HwChannels, s.Passthrough).ret # 0

\* the play thread moves on to a slot of another format, or handles a flush,
\* and AudioNextRing cannot set the device up for the slot it comes to
AdvanceFails ==
    /\ ThreadAdvance
    /\ LET old == AudioRing[AudioRingRead]
           new == AudioRing[(AudioRingRead + 1) % AUDIO_RING_MAX]
       IN /\ <<old.Passthrough, old.HwSampleRate, old.HwChannels>>
                 # <<new.Passthrough, new.HwSampleRate, new.HwChannels>>
          /\ SetupFails(new)

FlushFails == ThreadFlush /\ SetupFails(AudioRing[AudioRingRead])

\* C34: when AudioNextRing cannot set the device up for the slot the play
\* thread has come to, the slot's hardware and input sample rates become 0
\* and the thread goes back to its wait; while the read slot has no
\* hardware rate nothing is written to the device; a slot gets a hardware
\* rate again only together with an empty buffer, so the bytes it held are
\* never written; and AudioEnqueue into a slot without a hardware rate
\* leaves the ring as it is.
C34_FailedSetupInvalidatesSlot ==
    /\ [][(AdvanceFails \/ FlushFails) =>
              /\ AudioRing'[AudioRingRead'].HwSampleRate = 0
              /\ AudioRing'[AudioRingRead'].InSampleRate = 0
              /\ cpc' = "top"]_vars
    /\ [][AudioRing[AudioRingRead].HwSampleRate = 0 => hw'.queued <= hw.queued]_vars
    /\ [][\A i \in Slots :
              (AudioRing[i].HwSampleRate = 0 /\ AudioRing'[i].HwSampleRate # 0)
                  => RingBufferUsedBytes(AudioRing'[i].RingBuffer) = 0]_vars
    /\ [][(AudioEnqueue /\ AudioRing[AudioRingWrite].HwSampleRate = 0)
              => AudioRing' = AudioRing]_vars

\* the device has failed, the play thread has come to the slot of the mono
\* stream, which holds bytes, and is back in its wait; the next frame is
\* about to be enqueued into that slot
C34_Witness ==
    /\ hw.dead /\ ~hw.handle
    /\ AudioRing[AudioRingRead].HwSampleRate = 0
    /\ AudioRing[AudioRingRead].InSampleRate = 0
    /\ Used(AudioRingRead) > 0
    /\ AudioRingWrite = AudioRingRead
    /\ ppc = "enq"
    /\ cpc = "waiting"

\* an AlsaThread call on a device that has failed: the read slot holds
\* bytes, the thread is not paused, snd_pcm_wait returns an error and
\* snd_pcm_recover does not repair it
FailedPass == ThreadPlay /\ SinkFailed /\ Used(AudioRingRead) # 0 /\ AudioPaused = 0

\* C35: when the device keeps failing and snd_pcm_recover does not succeed,
\* the play thread does not try again without end: a failed AlsaThread call
\* takes the thread out of its inner loop and back to its wait, or at least
\* leaves something changed that a later attempt can find.
C35_FailingSinkLeavesLoop ==
    [][FailedPass => (cpc' = "top" \/ <<AudioRing, AudioRingFilled, hw, flagVars>>'
                                          # <<AudioRing, AudioRingFilled, hw, flagVars>>)]_vars

\* ------------------------------------------------------------------------
\* the software amplifier and partial writes
\* ------------------------------------------------------------------------

\* C36: with software volume on and a slot that is not pass-through, every
\* sample handed to the device is the enqueued sample through the amplifier
\* exactly once, also when the device takes only part of what is offered
\* and the rest is offered again on the next pass.
C36_AmplifiedOnce ==
    (call.op = "AlsaPlayRingbuffer" /\ call.softvol # 0
        /\ AudioRing[AudioRingRead].Passthrough = 0)
    => call.played = AudioSoftAmplifier(call.queued, call.mute, call.amplifier)

\* ------------------------------------------------------------------------
\* the skip debt
\* ------------------------------------------------------------------------

\* the bytes a step takes off the skip debt
DebtPaid == AudioSkip - AudioSkip'

\* AudioEnqueue writes `count` bytes into a configured write slot while
\* the play thread is not running: what it drops from the front of the slot
\* is min(bytes in the slot after the write, debt), and the debt goes down
\* by as much
EnqueuePaysDebt(count) ==
    LET s == AudioRing[AudioRingWrite]
        n == RingBufferUsedBytes(RingBufferWrite(s.RingBuffer, EnqueueCount(s, count)))
    IN (count # 0 /\ s.HwSampleRate # 0 /\ AudioRunning = 0)
       => /\ DebtPaid = Min(n, AudioSkip)
          /\ RingBufferUsedBytes(AudioRing'[AudioRingWrite].RingBuffer) = n - DebtPaid

\* AudioVideoReady(pts) before the start with 0 < skip < 2 s: the debt it
\* leaves is the skip it computed, in bytes, less the bytes it dropped
VideoReadyOwes(pts) ==
    LET s == AudioRing[AudioRingWrite]
        ticks == VideoSkipTicks(s, pts)
        dropped == Used(AudioRingWrite)
                       - RingBufferUsedBytes(AudioRing'[AudioRingWrite].RingBuffer)
    IN (VideoReadyBeforeStart(pts) /\ ticks > 0 /\ ticks < 2000 * 90)
       => AudioSkip' = VideoSkipBytes(s, ticks) - dropped

\* a step of AudioFlushBuffers that takes the slot for the flush
FlushTakesSlot == (AudioFlushBuffers \/ AudioFlushBuffersSpin) /\ ppc' = "flush_inc"

\* C37: the skip debt is never negative; AudioEnqueue while the play thread
\* is not running drops min(bytes in the write slot, debt) bytes from the
\* front of the write slot and lowers the debt by as much; a flush resets
\* the debt to 0; the debt an AudioVideoReady call leaves is the skip it
\* computed less what it dropped itself, and only these calls change the
\* debt, so that without a flush the bytes dropped by the call and by the
\* following AudioEnqueue calls add up to the skip computed.
C37_SkipDebtAccounting ==
    /\ [](AudioSkip >= 0)
    /\ [][/\ \A f \in todo.frames :
                (AudioEnqueueCall(f) /\ ppc' = "idle") => EnqueuePaysDebt(f.count)
          /\ AudioEnqueue => EnqueuePaysDebt(parg.count)]_vars
    /\ [][FlushTakesSlot => AudioSkip' = 0]_vars
    /\ [][\A pts \in todo.videos : VideoReadyOwes(pts)]_vars
    /\ [][AudioSkip' # AudioSkip =>
              \/ FlushTakesSlot
              \/ AudioEnqueue
              \/ \E f \in todo.frames : AudioEnqueueCall(f)
              \/ \E pts \in todo.videos : AudioVideoReady(pts)]_vars

\* ------------------------------------------------------------------------
\* Properties of the capability matrix (DspSpec)
\* ------------------------------------------------------------------------

\* C38: after AudioInit, for every table rate u and every channel count c,
\* a probe of (rate u, c channels) that succeeded is recorded in
\* AudioRatesInHw[u] and maps c to itself, and every entry of
\* AudioChannelMatrix[u] that is not 0 is a channel count whose probe at
\* rate u succeeded.
C38_MatrixNamesProbedFormats ==
    call.op = "AudioInit" =>
        \A u \in 1..AudioRatesMax : \A c \in 1..8 :
            /\ (c \in call.dev[1] /\ c \in call.dev[u])
                   => /\ c \in call.AudioRatesInHw[u]
                      /\ call.AudioChannelMatrix[u][c] = c
            /\ call.AudioChannelMatrix[u][c] # 0
                   => call.AudioChannelMatrix[u][c] \in call.AudioRatesInHw[u]

\* AudioChannelsInHw[c] is set after AudioInit
InHw(c) == call.AudioChannelsInHw[c] # 0

\* the first channel count of the chain 6, 2, 1 that is in hardware, or 0
FirstOf621 == IF InHw(6) THEN 6 ELSE IF InHw(2) THEN 2 ELSE IF InHw(1) THEN 1 ELSE 0

\* the smallest channel count in hardware among lo..8, or 0
SmallestInHw(lo) ==
    IF \E h \in lo..8 : InHw(h)
    THEN CHOOSE h \in lo..8 : InHw(h) /\ \A g \in lo..8 : InHw(g) => h <= g
    ELSE 0

\* C39 as stated: for a supported rate and a channel count c that is not
\* in hardware, the entry is the smallest channel count in hardware that is
\* greater than c when there is one, otherwise the first of 6, 2, 1 in
\* hardware, and 0 only when there is none.
C39_NextHigherOrChain ==
    call.op = "AudioInit" =>
        \A u \in 1..AudioRatesMax : \A c \in 1..8 :
            (call.AudioRatesInHw[u] # {} /\ ~InHw(c))
                => call.AudioChannelMatrix[u][c] =
                       IF SmallestInHw(c + 1) # 0 THEN SmallestInHw(c + 1) ELSE FirstOf621

\* C39: for a supported rate and a channel count c that is not in hardware:
\* mono maps to 2 channels when stereo is in hardware and to 0 otherwise;
\* c in 2..8 maps to the smallest channel count in hardware among
\* max(c + 1, 4)..8 when there is one, otherwise to the first of 6, 2, 1 in
\* hardware, and to 0 when there is none.
C39_SwitchChain ==
    call.op = "AudioInit" =>
        \A u \in 1..AudioRatesMax : \A c \in 1..8 :
            (call.AudioRatesInHw[u] # {} /\ ~InHw(c))
                => call.AudioChannelMatrix[u][c] =
                       IF c = 1 THEN (IF InHw(2) THEN 2 ELSE 0)
                       ELSE IF SmallestInHw(Max(c + 1, 4)) # 0
                       THEN SmallestInHw(Max(c + 1, 4))
                       ELSE FirstOf621

\* a device with 3 and 4 channels at every rate: stereo maps to 4 channels,
\* not to 3, and mono has no entry
C39_Witness ==
    /\ call.op = "AudioInit"
    /\ call.dev = <<{3, 4}, {3, 4}, {3, 4}>>
    /\ call.AudioChannelMatrix[1][2] = 4
    /\ call.AudioChannelMatrix[1][1] = 0

\* C40: every pair (input channels, hardware channels) the matrix lets
\* AudioRingAdd store in a slot, for any device, is a pair AudioResample has
\* a transform for: it does not take the `unsupported combination' path that
\* writes silence.
C40_StoredPairsHaveTransform ==
    call.op = "AudioInit" =>
        \A u \in 1..AudioRatesMax : \A c \in 1..8 :
            LET m == call.AudioChannelMatrix[u][c] IN
            m # 0 => ~AudioResample(MixerInput(c), c, 1, Zeros(m), m).error

====
